---- MODULE Spec2Model ----
(***************************************************************************)
(* The configuration patch scripts of maida_vale (utility/archive/fix_*.py *)
(* and update_urls.py) as a state machine over the files they rewrite.     *)
(*                                                                         *)
(* A file is the sequence of its lines, every line terminated by a line    *)
(* break, each line a string without its line break.  The scripts test     *)
(* lines and contents with Python's substring operator; here a substring   *)
(* test is the set of the lines of the model's vocabulary that contain the *)
(* substring.  A message the scripts print is recorded without its leading *)
(* check-mark character.                                                   *)
(*                                                                         *)
(* The inspectors full_diagnostic.py and comprehensive_validation.py run   *)
(* over the same files and over the project tree; what the Python          *)
(* environment answers them (imports, settings, database) is the state     *)
(* variable sys.                                                           *)
(*                                                                         *)
(* project_structure_analyzer.py scores the project tree; migration 0003   *)
(* of the sites app, manage_safe.py and create_admin_direct.py act on the  *)
(* database and on the environment of their process.                       *)
(***************************************************************************)
EXTENDS Integers, Sequences, FiniteSets, TLC

VARIABLES
  base,     \* lines of config/settings/base.py
  urls,     \* lines of config/urls.py
  backups,  \* backups[t]: lines of config/settings/base.backup_<t>, or NoFile
  clock,    \* the wall clock in whole seconds, the resolution of strftime("%Y%m%d_%H%M%S")
  pc,       \* "idle", or "writing": a script holds its target open for writing
  target,   \* the file the last script writes: "base" or "urls"
  before,   \* the target's content when the last script read it
  pending,  \* the content the running script is about to write
  out,      \* the messages the last script has printed so far
  status,   \* of the last script: "none", "running", "done", "interrupted"
  backedup, \* the last script completed a backup copy before it opened its target
  history,  \* the names of the scripts started so far, in order
  initial,  \* the content of base.py before the first run
  crashed,  \* some run was interrupted while it held its target open
  env,      \* lines of .env
  exists,   \* the paths under the project root that exist
  unreadable, \* the files among them that cannot be opened and decoded
  sys,      \* what the Python environment answers: importable packages, loadable settings, ...
  tool,     \* the inspector that ran last: "none", "full_diagnostic", "comprehensive_validation"
  issues,   \* the issues list of that run
  warnings, \* its warnings list
  fixes,    \* its fixes list (ProjectDiagnostic.fixes, ProjectValidator's fixes_applied)
  ran,      \* the checks it entered, in order
  reported, \* it reached print_report / generate_report
  exitcode, \* its exit status; -1 before any run
  wrote,    \* the files it wrote
  autofix,  \* the fix scripts held by auto_fix.py, or NoFile
  structure_valid, \* the flag check_cookiecutter_structure stored
  existed,  \* the paths that existed when the run started
  reports,  \* reports[<<name, t>>]: the snapshot file <name>_<t>.json, or NoFile
  snapshots, \* the snapshot paths the report writers wrote, one per invocation, in order
  tree,     \* what the globs of project_structure_analyzer.py count under the project root
  analyzer, \* the ProjectStructureAnalyzer object: its issues, strengths, recommendations
  printed,  \* the score and the status its last generate_report printed
  report,   \* the report dict its last generate_report wrote
  site,     \* the Site table: a set of rows
  site0,    \* that table before migration 0003 was applied
  applied,  \* migration 0003 of the sites app is applied
  users,    \* the user table: a set of rows
  users0,   \* the user table before the first run of create_admin_direct
  environ,  \* the environment the shell gives a new process
  called,   \* os.environ at each call manage_safe made of execute_from_command_line
  admin_runs \* the number of completed runs of create_admin_direct

\* the state of the inspectors full_diagnostic.py and comprehensive_validation.py
toolVars == <<env, exists, unreadable, sys, tool, issues, warnings, fixes, ran, reported,
              exitcode, wrote, autofix, structure_valid, existed>>

\* the snapshot files of the report writers and the state of project_structure_analyzer.py
analyzerVars == <<reports, snapshots, tree, analyzer, printed, report>>

\* the database and the process environment of the management scripts
adminVars == <<site, site0, applied, users, users0, environ, called, admin_runs>>

vars == <<base, urls, backups, clock, pc, target, before, pending, out, status,
          backedup, history, initial, crashed, toolVars, analyzerVars, adminVars>>

----------------------------------------------------------------------------
(* Bounds *)

MaxLen == 4
MaxApps == 2
MaxEntries == 3
MaxRuns == 2
MaxOscarRuns == 3
MaxTablesRuns == 3
MaxClock == 1
\* the deviations from a sound project an inspector meets
MaxFaults == 2
\* the runs of the diagnostic and of the URL fixes
MaxDiagRuns == 3
\* the runs of the validator
MaxValidRuns == 2
\* the runs of the report writers within the seconds of the model
MaxReportRuns == 3
\* the calls of analyze() on one analyzer object
MaxAnalyzeCalls == 8
\* the temporary and backup files in the project root
MaxCleanup == 11
\* the __pycache__ directories under the project root
MaxPycache == 6
\* the runs of the management scripts
MaxAdminRuns == 3

NoFile == <<"<no such file>">>

----------------------------------------------------------------------------
(* The vocabulary of lines *)

Blank == ""
ImportEnviron == "import environ"
OscarImport == "from oscar import get_core_apps"
ThirdPartyOpen == "THIRD_PARTY_APPS = ["
CloseBracket == "]"
GetCoreClose == "] + get_core_apps()  # Add all Oscar apps"
CrispyLine == "    \"crispy_forms\","
CrispyNoComma == "    \"crispy_forms\""
OscarEntry == "    \"oscar\","
Tables2Line == "    \"django_tables2\","
Tables2NoComma == "    \"django_tables2\""
Tables2Template == "DJANGO_TABLES2_TEMPLATE = \"django_tables2/bootstrap4.html\""
OscarDepsComment == "    # Oscar dependencies"
OscarShopLine == "    \"oscar.config.Shop\","
InstalledCanon == "INSTALLED_APPS = DJANGO_APPS + THIRD_PARTY_APPS + LOCAL_APPS"
InstalledCore == "INSTALLED_APPS = DJANGO_APPS + get_core_apps() + LOCAL_APPS"
SiteId == "SITE_ID = 1"
DefaultsComment == "# Import Oscar default settings"
DefaultsImport == "from oscar.defaults import *"
OscarShopName == "OSCAR_SHOP_NAME = \"Maida Vale\""
LocalOpen == "LOCAL_APPS = ["
LocalUsers == "    \"maida_vale.users\","
SessionLine == "    \"django.contrib.sessions.middleware.SessionMiddleware\","
AuthLine == "    \"django.contrib.auth.middleware.AuthenticationMiddleware\","
OscarMwComment == "    # Oscar middleware"
RedirectLine == "    \"wagtail.contrib.redirects.middleware.RedirectMiddleware\","
FlatpageMwLine == "    \"django.contrib.flatpages.middleware.FlatpageFallbackMiddleware\","
AdminLine == "    \"django.contrib.admin\","
FlatpagesAppLine == "    \"django.contrib.flatpages\","

\* fix_middleware_order.py:10 (without the line break)
basket_middleware_line == "    \"oscar.apps.basket.middleware.BasketMiddleware\","

\* fix_allauth_settings.py:9-12
old_settings ==
 <<
   "ACCOUNT_AUTHENTICATION_METHOD = \"username\"",
   "ACCOUNT_USERNAME_REQUIRED = True",
   "ACCOUNT_EMAIL_REQUIRED = True",
   "ACCOUNT_SIGNUP_PASSWORD_ENTER_TWICE = True"
 >>

\* fix_allauth_settings.py:14-15
new_settings ==
 <<
   "ACCOUNT_LOGIN_METHODS = {\"username\"}",
   "ACCOUNT_SIGNUP_FIELDS = ['email*', 'username*', 'password1*', 'password2*']"
 >>

\* fix_local_apps.py:9-14
local_apps_replacement ==
 <<
   "LOCAL_APPS = [",
   "    \"maida_vale.users\",",
   "    \"maida_vale.nesosa\",",
   "    \"maida_vale.manufacturing\",",
   "    \"maida_vale.uk_compliance\",",
   "]"
 >>

\* fix_oscar_v4.py:100-102, the lines added after the SessionMiddleware entry
middleware_addition == <<OscarMwComment, basket_middleware_line>>

\* fix_oscar_v4.py:27-61, the lines of oscar_apps (the text starts with a line break, hence the leading empty line)
oscar_apps ==
 <<
   "",
   "    # Oscar core apps (must be before oscar)",
   "    \"oscar.config.Shop\",",
   "    \"oscar.apps.analytics.apps.AnalyticsConfig\",",
   "    \"oscar.apps.checkout.apps.CheckoutConfig\",",
   "    \"oscar.apps.address.apps.AddressConfig\",",
   "    \"oscar.apps.shipping.apps.ShippingConfig\",",
   "    \"oscar.apps.catalogue.apps.CatalogueConfig\",",
   "    \"oscar.apps.catalogue.reviews.apps.CatalogueReviewsConfig\",",
   "    \"oscar.apps.communication.apps.CommunicationConfig\",",
   "    \"oscar.apps.partner.apps.PartnerConfig\",",
   "    \"oscar.apps.basket.apps.BasketConfig\",",
   "    \"oscar.apps.payment.apps.PaymentConfig\",",
   "    \"oscar.apps.offer.apps.OfferConfig\",",
   "    \"oscar.apps.order.apps.OrderConfig\",",
   "    \"oscar.apps.customer.apps.CustomerConfig\",",
   "    \"oscar.apps.search.apps.SearchConfig\",",
   "    \"oscar.apps.voucher.apps.VoucherConfig\",",
   "    \"oscar.apps.wishlists.apps.WishlistsConfig\",",
   "    \"oscar.apps.dashboard.apps.DashboardConfig\",",
   "    \"oscar.apps.dashboard.reports.apps.ReportsDashboardConfig\",",
   "    \"oscar.apps.dashboard.users.apps.UsersDashboardConfig\",",
   "    \"oscar.apps.dashboard.orders.apps.OrdersDashboardConfig\",",
   "    \"oscar.apps.dashboard.catalogue.apps.CatalogueDashboardConfig\",",
   "    \"oscar.apps.dashboard.offers.apps.OffersDashboardConfig\",",
   "    \"oscar.apps.dashboard.partners.apps.PartnersDashboardConfig\",",
   "    \"oscar.apps.dashboard.pages.apps.PagesDashboardConfig\",",
   "    \"oscar.apps.dashboard.ranges.apps.RangesDashboardConfig\",",
   "    \"oscar.apps.dashboard.reviews.apps.ReviewsDashboardConfig\",",
   "    \"oscar.apps.dashboard.vouchers.apps.VouchersDashboardConfig\",",
   "    \"oscar.apps.dashboard.communications.apps.CommunicationsDashboardConfig\",",
   "    \"oscar.apps.dashboard.shipping.apps.ShippingDashboardConfig\",",
   "    # Oscar dependencies",
   "    \"django_tables2\","
 >>
\* fix_oscar_settings.py:81-95, the lines appended for OSCAR_SHOP_NAME
oscar_settings ==
 <<
   "",
   "# Oscar-specific settings",
   "OSCAR_SHOP_NAME = \"Maida Vale\"",
   "OSCAR_SHOP_TAGLINE = \"Manufacturing Excellence\"",
   "OSCAR_ALLOW_ANON_CHECKOUT = True",
   "",
   "# Oscar Dashboard",
   "OSCAR_DASHBOARD_NAVIGATION += [",
   "    {",
   "        'label': 'Manufacturing',",
   "        'icon': 'fas fa-industry',",
   "        'url_name': 'dashboard:index',",
   "    },",
   "]"
 >>
\* update_urls.py:6-49
urls_content ==
 <<
   "from django.conf import settings",
   "from django.conf.urls.static import static",
   "from django.contrib import admin",
   "from django.urls import include, path",
   "from django.views import defaults as default_views",
   "from django.views.generic import TemplateView",
   "from oscar.app import application as oscar_app",
   "",
   "urlpatterns = [",
   "    # Django Admin",
   "    path(settings.ADMIN_URL, admin.site.urls),",
   "    ",
   "    # User management",
   "    path(\"users/\", include(\"maida_vale.users.urls\", namespace=\"users\")),",
   "    path(\"accounts/\", include(\"allauth.urls\")),",
   "    ",
   "    # Oscar e-commerce - this should come last as it has a catch-all",
   "    path(\"\", oscar_app.urls),",
   "] + static(settings.MEDIA_URL, document_root=settings.MEDIA_ROOT)",
   "",
   "if settings.DEBUG:",
   "    # This allows the error pages to be debugged during development",
   "    urlpatterns += [",
   "        path(",
   "            \"400/\",",
   "            default_views.bad_request,",
   "            kwargs={\"exception\": Exception(\"Bad Request!\")},",
   "        ),",
   "        path(",
   "            \"403/\",",
   "            default_views.permission_denied,",
   "            kwargs={\"exception\": Exception(\"Permission Denied\")},",
   "        ),",
   "        path(",
   "            \"404/\",",
   "            default_views.page_not_found,",
   "            kwargs={\"exception\": Exception(\"Page not Found\")},",
   "        ),",
   "        path(\"500/\", default_views.server_error),",
   "    ]",
   "    if \"debug_toolbar\" in settings.INSTALLED_APPS:",
   "        import debug_toolbar",
   "        urlpatterns = [path(\"__debug__/\", include(debug_toolbar.urls))] + urlpatterns"
 >>
\* config/urls.py:1-40 as shipped
RepoUrls ==
 <<
   "from django.conf import settings",
   "from django.conf.urls.static import static",
   "from django.contrib import admin",
   "from django.urls import include, path",
   "from django.apps import apps",
   "",
   "# Import Wagtail URLs",
   "from wagtail.admin import urls as wagtailadmin_urls",
   "from wagtail import urls as wagtail_urls",
   "from wagtail.documents import urls as wagtaildocs_urls",
   "",
   "urlpatterns = [",
   "    # Django Admin",
   "    path(\"admin/\", admin.site.urls),",
   "    ",
   "    # Django i18n (for language switching)",
   "    path('i18n/', include('django.conf.urls.i18n')),",
   "    ",
   "    # API endpoints (ADD THIS LINE)",
   "    path('api/v1/', include('maida_vale.api.v1.urls')),",
   "    ",
   "    # Wagtail CMS",
   "    path('cms/', include(wagtailadmin_urls)),",
   "    path('documents/', include(wagtaildocs_urls)),",
   "    ",
   "    # Django-allauth",
   "    path(\"accounts/\", include(\"allauth.urls\")),",
   "    ",
   "    # Oscar e-commerce - This MUST come before Wagtail's catch-all",
   "    path('', include(apps.get_app_config('oscar').urls[0])),",
   "    ",
   "    # Wagtail's page serving mechanism (should be last)",
   "    path('', include(wagtail_urls)),",
   "    ",
   "] + static(settings.MEDIA_URL, document_root=settings.MEDIA_ROOT)",
   "",
   "if settings.DEBUG:",
   "    if \"debug_toolbar\" in settings.INSTALLED_APPS:",
   "        import debug_toolbar",
   "        urlpatterns = [path(\"__debug__/\", include(debug_toolbar.urls))] + urlpatterns"
 >>

----------------------------------------------------------------------------
(* Substring tests: each is the set of vocabulary lines holding the text *)

\* 'oscar.apps.basket.middleware.BasketMiddleware' in line
HasBasketMiddleware(line) == line \in {basket_middleware_line}
\* 'django.contrib.auth.middleware.AuthenticationMiddleware' in line
HasAuthMiddleware(line) == line \in {AuthLine}
\* 'django.contrib.flatpages' in line
HasFlatpages(line) == line \in {FlatpagesAppLine, FlatpageMwLine}
\* 'django.contrib.flatpages.middleware.FlatpageFallbackMiddleware' in line
HasFlatpageMiddleware(line) == line \in {FlatpageMwLine}
\* '"django_tables2"' in line (with the quotes)
HasTables2Quoted(line) == line \in {Tables2Line, Tables2NoComma}
\* 'django_tables2' in line
HasTables2(line) == line \in {Tables2Line, Tables2NoComma, Tables2Template}
\* '# Oscar dependencies' in line
HasOscarDeps(line) == line \in {OscarDepsComment}
\* 'from oscar import get_core_apps' in line
HasOscarImport(line) == line \in {OscarImport}
\* line.startswith('import environ')
StartsWithImportEnviron(line) == line \in {ImportEnviron}
\* 'get_core_apps()' in line
HasGetCoreCall(line) == line \in {GetCoreClose, InstalledCore}
\* '] + get_core_apps()' in line
HasBracketGetCore(line) == line \in {GetCoreClose}
\* "'oscar'" in line or '"oscar"' in line
HasQuotedOscar(line) == line \in {OscarEntry}
\* 'oscar.config.Shop' in line
HasOscarShop(line) == line \in {OscarShopLine}
\* 'INSTALLED_APPS = DJANGO_APPS + THIRD_PARTY_APPS + LOCAL_APPS' in line
HasInstalledCanon(line) == line \in {InstalledCanon}
\* the line matches INSTALLED_APPS\s*=\s*[^\n]+ (from its first character)
MatchesInstalled(line) == line \in {InstalledCanon, InstalledCore}
\* 'from oscar.defaults import *' in line
HasDefaultsImport(line) == line \in {DefaultsImport}
\* 'OSCAR_SHOP_NAME' in line
HasShopName(line) == line \in {OscarShopName}
\* the line matches SITE_ID\s*=\s*\d+
MatchesSiteId(line) == line \in {SiteId}
\* ']' in line
HasCloseBracket(line) == line \in {CloseBracket, GetCoreClose, new_settings[2]}
\* the line holds nothing but white space
IsBlank(line) == line \in {Blank}

\* str.rstrip(',') of an entry line that ends an app list
StripComma(line) ==
  CASE line = CrispyLine -> CrispyNoComma
    [] line = Tables2Line -> Tables2NoComma
    [] line \in {CrispyNoComma, Tables2NoComma, OscarDepsComment} -> line

\* str.rstrip(',') followed by + ',' (fix_oscar_v4.py:88-90)
EnsureComma(line) ==
  CASE line \in {CrispyLine, CrispyNoComma} -> CrispyLine
    [] line \in {Tables2Line, Tables2NoComma} -> Tables2Line
    [] line = LocalUsers -> LocalUsers

----------------------------------------------------------------------------
(* Sequences *)

AnyLine(s, Test(_)) == \E i \in 1..Len(s) : Test(s[i])

Count(s, Test(_)) == Cardinality({i \in 1..Len(s) : Test(s[i])})

SeqsUpTo(S, n) == UNION {[1..k -> S] : k \in 0..n}

RECURSIVE Concat(_)
Concat(ss) == IF ss = <<>> THEN <<>> ELSE Head(ss) \o Concat(Tail(ss))

\* the least j in i..Len(s) with ']' in s[j], or 0
RECURSIVE FirstClose(_, _)
FirstClose(s, i) ==
  IF i > Len(s) THEN 0
  ELSE IF HasCloseBracket(s[i]) THEN i ELSE FirstClose(s, i + 1)

\* str.rstrip() of the lines of an app list: trailing blank lines go
RECURSIVE RStripLines(_)
RStripLines(s) ==
  IF s = <<>> THEN <<>>
  ELSE IF IsBlank(s[Len(s)]) THEN RStripLines(SubSeq(s, 1, Len(s) - 1)) ELSE s

----------------------------------------------------------------------------
(* fix_middleware_order.py *)

RECURSIVE MiddlewareLoop(_, _, _, _)
MiddlewareLoop(lines, i, found_basket_middleware, new_lines) ==
  IF i > Len(lines) THEN new_lines
  ELSE IF HasBasketMiddleware(lines[i])
       THEN MiddlewareLoop(lines, i + 1, TRUE, new_lines)
       ELSE IF HasAuthMiddleware(lines[i]) /\ found_basket_middleware
            THEN MiddlewareLoop(lines, i + 1, found_basket_middleware,
                                new_lines \o <<lines[i], basket_middleware_line>>)
            ELSE MiddlewareLoop(lines, i + 1, found_basket_middleware,
                                Append(new_lines, lines[i]))

FixMiddlewareOrder(lines) == MiddlewareLoop(lines, 1, FALSE, <<>>)

MsgMiddlewareFixed == "Fixed middleware order - BasketMiddleware now comes AFTER AuthenticationMiddleware"

----------------------------------------------------------------------------
(* fix_flatpages.py *)

MsgFlatpagesAdded == "Added django.contrib.flatpages to DJANGO_APPS"
MsgFlatpageMwAdded == "Added FlatpageFallbackMiddleware"
MsgFlatpagesComplete == "Flatpages configuration complete"

\* lines 10-15
FlatpagesApp(content) ==
  IF ~AnyLine(content, HasFlatpages)
  THEN Concat([i \in 1..Len(content) |->
         IF content[i] = AdminLine THEN <<AdminLine, FlatpagesAppLine>> ELSE <<content[i]>>])
  ELSE content

\* lines 19-24
FlatpagesMw(content) ==
  IF ~AnyLine(content, HasFlatpageMiddleware)
  THEN Concat([i \in 1..Len(content) |->
         IF content[i] = RedirectLine THEN <<RedirectLine, FlatpageMwLine>> ELSE <<content[i]>>])
  ELSE content

FixFlatpages(content) == FlatpagesMw(FlatpagesApp(content))

\* what the script prints before it opens the file for writing (lines 16, 25)
FixFlatpagesOut(content) ==
  (IF ~AnyLine(content, HasFlatpages) THEN <<MsgFlatpagesAdded>> ELSE <<>>)
  \o (IF ~AnyLine(FlatpagesApp(content), HasFlatpageMiddleware) THEN <<MsgFlatpageMwAdded>> ELSE <<>>)

----------------------------------------------------------------------------
(* fix_allauth_settings.py *)

MsgAllauthUpdated == "Updated allauth settings to new format"

\* content.replace(old_settings, new_settings), left to right without overlap
RECURSIVE AllauthReplace(_, _)
AllauthReplace(content, i) ==
  IF i > Len(content) THEN <<>>
  ELSE IF i + 3 <= Len(content) /\ SubSeq(content, i, i + 3) = old_settings
       THEN new_settings \o AllauthReplace(content, i + 4)
       ELSE <<content[i]>> \o AllauthReplace(content, i + 1)

FixAllauthSettings(content) == AllauthReplace(content, 1)

----------------------------------------------------------------------------
(* fix_local_apps.py *)

MsgLocalAppsUpdated == "Updated LOCAL_APPS"

\* the line that ']' and the text after the first ']' of a line make
FromBracket(line) ==
  CASE line = CloseBracket -> CloseBracket
    [] line = new_settings[2] -> CloseBracket
    [] line = GetCoreClose -> GetCoreClose

\* re.sub(r'LOCAL_APPS\s*=\s*\[.*?\]', local_apps_replacement, content, flags=re.DOTALL)
RECURSIVE LocalAppsSub(_, _)
LocalAppsSub(content, i) ==
  IF i > Len(content) THEN <<>>
  ELSE IF content[i] = LocalOpen /\ FirstClose(content, i + 1) # 0
       THEN LET j == FirstClose(content, i + 1)
            IN  SubSeq(local_apps_replacement, 1, 5) \o <<FromBracket(content[j])>>
                \o LocalAppsSub(content, j + 1)
       ELSE <<content[i]>> \o LocalAppsSub(content, i + 1)

FixLocalApps(content) == LocalAppsSub(content, 1)

----------------------------------------------------------------------------
(* fix_oscar_settings.py *)

MsgBackup == "Created backup"
MsgImportAdded == "Added 'from oscar import get_core_apps' import"
MsgGetCoreAdded == "Added get_core_apps() to THIRD_PARTY_APPS"
MsgInstalledFixed == "Fixed INSTALLED_APPS definition"
MsgDefaultsAdded == "Added Oscar defaults import"
MsgOscarSettingsAdded == "Added Oscar-specific settings"
MsgSiteIdAdded == "Added SITE_ID setting"
MsgConfigUpdated == "Configuration updated successfully!"

\* the least i in k..Len(s) whose line starts with 'import environ', or 0
RECURSIVE FirstEnviron(_, _)
FirstEnviron(s, k) ==
  IF k > Len(s) THEN 0
  ELSE IF StartsWithImportEnviron(s[k]) THEN k ELSE FirstEnviron(s, k + 1)

\* lines 22-29
AddOscarImport(content) ==
  IF ~AnyLine(content, HasOscarImport)
  THEN LET i == FirstEnviron(content, 1)
       IN  IF i # 0
           THEN SubSeq(content, 1, i) \o <<OscarImport>> \o SubSeq(content, i + 1, Len(content))
           ELSE content
  ELSE content

NotQuotedOscar(line) == ~HasQuotedOscar(line)

\* lines 36-58, applied to the lines between 'THIRD_PARTY_APPS = [' and the first ']'
replace_third_party_apps(apps) ==
  LET filtered_lines == SelectSeq(apps, NotQuotedOscar)
      r == RStripLines(filtered_lines)
      new_apps == IF r = <<>> THEN <<>>
                  ELSE SubSeq(r, 1, Len(r) - 1) \o <<StripComma(r[Len(r)])>>
  IN  IF ~AnyLine(filtered_lines, HasGetCoreCall)
      THEN <<ThirdPartyOpen>> \o new_apps \o <<GetCoreClose>>
      ELSE <<ThirdPartyOpen>> \o apps \o <<CloseBracket>>

\* re.sub(third_party_pattern, replace_third_party_apps, content), line 62
RECURSIVE SettingsThirdPartySub(_, _)
SettingsThirdPartySub(content, i) ==
  IF i > Len(content) THEN <<>>
  ELSE IF content[i] = ThirdPartyOpen /\ FirstClose(content, i + 1) # 0
       THEN LET j == FirstClose(content, i + 1)
            IN  CASE content[j] = CloseBracket ->
                     replace_third_party_apps(SubSeq(content, i + 1, j - 1))
                     \o SettingsThirdPartySub(content, j + 1)
       ELSE <<content[i]>> \o SettingsThirdPartySub(content, i + 1)

\* lines 61-62
AddGetCoreApps(content) ==
  IF ~AnyLine(content, HasGetCoreCall) THEN SettingsThirdPartySub(content, 1) ELSE content

\* lines 66-70
FixInstalledApps(content) ==
  IF ~AnyLine(content, HasInstalledCanon) /\ AnyLine(content, MatchesInstalled)
  THEN [i \in 1..Len(content) |->
          IF MatchesInstalled(content[i]) THEN InstalledCanon ELSE content[i]]
  ELSE content

\* lines 74-76
AddDefaultsImport(content) ==
  IF ~AnyLine(content, HasDefaultsImport)
  THEN content \o <<Blank, DefaultsComment, DefaultsImport>>
  ELSE content

\* lines 80-96
AddOscarSettings(content) ==
  IF ~AnyLine(content, HasShopName) THEN content \o oscar_settings ELSE content

\* content.replace('from oscar.defaults import *', 'SITE_ID = 1\n\nfrom oscar.defaults import *')
SiteIdBeforeDefaults(content) ==
  Concat([i \in 1..Len(content) |->
     IF content[i] = DefaultsImport THEN <<SiteId, Blank, DefaultsImport>> ELSE <<content[i]>>])

\* lines 100-102
AddSiteId(content) ==
  IF ~AnyLine(content, MatchesSiteId) THEN SiteIdBeforeDefaults(content) ELSE content

FixOscarSettings(content) ==
  AddSiteId(AddOscarSettings(AddDefaultsImport(FixInstalledApps(AddGetCoreApps(AddOscarImport(content))))))

\* what fix_oscar_configuration prints before it opens the file for writing
FixOscarSettingsOut(content) ==
  LET c1 == AddOscarImport(content)
      c2 == AddGetCoreApps(c1)
      c3 == FixInstalledApps(c2)
      c4 == AddDefaultsImport(c3)
      c5 == AddOscarSettings(c4)
  IN  <<MsgBackup>>
      \o (IF ~AnyLine(content, HasOscarImport) THEN <<MsgImportAdded>> ELSE <<>>)
      \o (IF ~AnyLine(c1, HasGetCoreCall) THEN <<MsgGetCoreAdded>> ELSE <<>>)
      \o (IF ~AnyLine(c2, HasInstalledCanon) /\ AnyLine(c2, MatchesInstalled) THEN <<MsgInstalledFixed>> ELSE <<>>)
      \o (IF ~AnyLine(c3, HasDefaultsImport) THEN <<MsgDefaultsAdded>> ELSE <<>>)
      \o (IF ~AnyLine(c4, HasShopName) THEN <<MsgOscarSettingsAdded>> ELSE <<>>)
      \o (IF ~AnyLine(c5, MatchesSiteId) THEN <<MsgSiteIdAdded>> ELSE <<>>)

----------------------------------------------------------------------------
(* fix_oscar_v4.py *)

MsgImportRemoved == "Removed old get_core_apps import"
MsgOscar4Added == "Added Oscar 4.0 apps to THIRD_PARTY_APPS"
MsgMiddlewareAdded == "Added Oscar middleware"
MsgOscar4Complete == "Oscar 4.0 configuration complete!"

\* content.replace('from oscar import get_core_apps', ''), line 22
RemoveOscarImport(content) ==
  [i \in 1..Len(content) |-> IF content[i] = OscarImport THEN Blank ELSE content[i]]

\* lines 64-67
RemoveGetCoreApps(content) ==
  IF AnyLine(content, HasBracketGetCore)
  THEN [i \in 1..Len(content) |-> IF content[i] = GetCoreClose THEN CloseBracket ELSE content[i]]
  ELSE content

\* lines 72-93, applied to the lines between 'THIRD_PARTY_APPS = [' and the first ']'
update_third_party_apps(apps) ==
  IF ~AnyLine(apps, HasOscarShop)
  THEN LET filtered_lines == SelectSeq(apps, NotQuotedOscar)
           r == RStripLines(filtered_lines)
       IN  IF r # <<>>
           THEN <<ThirdPartyOpen>> \o SubSeq(r, 1, Len(r) - 1) \o <<EnsureComma(r[Len(r)])>>
                \o oscar_apps \o <<CloseBracket>>
           ELSE <<ThirdPartyOpen>> \o Tail(oscar_apps) \o <<CloseBracket>>
  ELSE <<ThirdPartyOpen>> \o apps \o <<CloseBracket>>

\* re.sub(third_party_pattern, update_third_party_apps, content), line 95
RECURSIVE V4ThirdPartySub(_, _)
V4ThirdPartySub(content, i) ==
  IF i > Len(content) THEN <<>>
  ELSE IF content[i] = ThirdPartyOpen /\ FirstClose(content, i + 1) # 0
       THEN LET j == FirstClose(content, i + 1)
            IN  CASE content[j] = CloseBracket ->
                     update_third_party_apps(SubSeq(content, i + 1, j - 1))
                     \o V4ThirdPartySub(content, j + 1)
       ELSE <<content[i]>> \o V4ThirdPartySub(content, i + 1)

\* lines 99-108
AddBasketMiddleware(content) ==
  IF ~AnyLine(content, HasBasketMiddleware)
  THEN Concat([i \in 1..Len(content) |->
         IF content[i] = SessionLine THEN <<SessionLine>> \o middleware_addition
         ELSE <<content[i]>>])
  ELSE content

\* lines 112-117
V4AddSiteId(content) ==
  IF ~AnyLine(content, MatchesSiteId)
  THEN IF AnyLine(content, HasDefaultsImport)
       THEN SiteIdBeforeDefaults(content)
       ELSE content \o <<Blank, SiteId>>
  ELSE content

FixOscarV4(content) ==
  V4AddSiteId(AddBasketMiddleware(V4ThirdPartySub(RemoveGetCoreApps(RemoveOscarImport(content)), 1)))

\* what fix_oscar_v4_configuration prints before it opens the file for writing
FixOscarV4Out(content) ==
  LET c3 == V4ThirdPartySub(RemoveGetCoreApps(RemoveOscarImport(content)), 1)
      c4 == AddBasketMiddleware(c3)
  IN  <<MsgBackup, MsgImportRemoved, MsgOscar4Added>>
      \o (IF ~AnyLine(c3, HasBasketMiddleware) THEN <<MsgMiddlewareAdded>> ELSE <<>>)
      \o (IF ~AnyLine(c4, MatchesSiteId) THEN <<MsgSiteIdAdded>> ELSE <<>>)

----------------------------------------------------------------------------
(* fix_django_tables2.py *)

MsgTables2Removing == "Removing duplicate django_tables2 at line"
MsgTables2Fixed == "Fixed duplicate django_tables2"

\* lines 15-28
RECURSIVE Tables2Loop(_, _, _, _)
Tables2Loop(lines, i, skip_next_tables2, new_lines) ==
  IF i > Len(lines) THEN new_lines
  ELSE IF HasOscarDeps(lines[i]) /\ i < Len(lines)
       THEN Tables2Loop(lines, i + 1,
                        skip_next_tables2 \/ HasTables2(lines[i + 1]),
                        Append(new_lines, lines[i]))
       ELSE IF skip_next_tables2 /\ HasTables2(lines[i])
            THEN Tables2Loop(lines, i + 1, FALSE, new_lines)
            ELSE Tables2Loop(lines, i + 1, skip_next_tables2, Append(new_lines, lines[i]))

FixDjangoTables2(lines) == Tables2Loop(lines, 1, FALSE, <<>>)

\* line 21, once for every '# Oscar dependencies' line followed by a django_tables2 line
FixDjangoTables2Out(lines) ==
  [k \in 1..Cardinality({i \in 1..(Len(lines) - 1) :
                           HasOscarDeps(lines[i]) /\ HasTables2(lines[i + 1])})
     |-> MsgTables2Removing]

----------------------------------------------------------------------------
(* fix_duplicate_tables2.py *)

MsgFound == "Found occurrences of django_tables2"
MsgKeeping == "Keeping first occurrence"
MsgRemoving == "Removing duplicate"
MsgRemoved == "Removed duplicate django_tables2"
MsgNoDuplicates == "No duplicates found"

\* line 11
occurrences(content) == Count(content, HasTables2Quoted)

\* lines 17-34: new_lines, and the messages of lines 26 and 28
RECURSIVE DuplicateLoop(_, _, _, _, _)
DuplicateLoop(lines, i, found_first, new_lines, msgs) ==
  IF i > Len(lines) THEN [content |-> new_lines, out |-> msgs]
  ELSE IF HasTables2(lines[i])
       THEN IF ~found_first
            THEN DuplicateLoop(lines, i + 1, TRUE, Append(new_lines, lines[i]),
                               Append(msgs, MsgKeeping))
            ELSE DuplicateLoop(lines, i + 1, found_first, new_lines,
                               Append(msgs, MsgRemoving))
       ELSE DuplicateLoop(lines, i + 1, found_first, Append(new_lines, lines[i]), msgs)

FixDuplicateTables2(content) ==
  IF occurrences(content) > 1
  THEN DuplicateLoop(content, 1, FALSE, <<>>, <<>>).content
  ELSE content

FixDuplicateTables2Out(content) ==
  IF occurrences(content) > 1
  THEN <<MsgFound>> \o DuplicateLoop(content, 1, FALSE, <<>>, <<>>).out
  ELSE <<MsgFound, MsgNoDuplicates>>

----------------------------------------------------------------------------
(* update_urls.py *)

MsgUrlsUpdated == "Updated URL configuration with Oscar integration"
\* full_diagnostic.py:267, the last line auto_fix.py prints
MsgAllFixesApplied == "All fixes applied!"

----------------------------------------------------------------------------
(* The files the runs start from *)

MiddlewareFiles == SeqsUpTo({SessionLine, AuthLine, basket_middleware_line}, MaxLen)

FlatpagesFiles == SeqsUpTo({AdminLine, FlatpagesAppLine, RedirectLine, FlatpageMwLine}, MaxLen)

AllauthFiles == SeqsUpTo({old_settings[i] : i \in 1..4}, MaxLen)

LocalAppsFiles == SeqsUpTo({LocalOpen, LocalUsers, CloseBracket}, MaxLen)

PatchFiles == MiddlewareFiles \cup FlatpagesFiles \cup AllauthFiles \cup LocalAppsFiles

OscarFiles ==
  { head \o list \o tail :
      head \in {<<>>, <<ImportEnviron>>, <<ImportEnviron, OscarImport>>},
      list \in {<<>>} \cup
               { <<ThirdPartyOpen>> \o e \o <<c>> :
                   e \in SeqsUpTo({CrispyLine, OscarEntry}, MaxApps),
                   c \in {CloseBracket, GetCoreClose} },
      tail \in {<<>>, <<InstalledCanon>>, <<InstalledCore>>, <<SessionLine>>, <<SiteId>>} }

TablesFiles ==
  { head \o <<ThirdPartyOpen>> \o e \o <<CloseBracket>> \o tail :
      head \in {<<>>, <<Tables2Template>>},
      e \in SeqsUpTo({CrispyLine, Tables2Line}, MaxEntries),
      tail \in {<<>>, <<Tables2Template>>} }

----------------------------------------------------------------------------
(* config/urls.py as the inspectors and the URL fixes see it *)

\* full_diagnostic.py:199-224, the text the generated fix script writes to config/urls.py
fixed_urls ==
 <<
   "from django.conf import settings",
   "from django.conf.urls.static import static",
   "from django.contrib import admin",
   "from django.urls import include, path",
   "from django.apps import apps",
   "",
   "# Import Wagtail URLs",
   "from wagtail.admin import urls as wagtailadmin_urls",
   "from wagtail import urls as wagtail_urls",
   "from wagtail.documents import urls as wagtaildocs_urls",
   "",
   "urlpatterns = [",
   "    path(\"admin/\", admin.site.urls),",
   "    path('cms/', include(wagtailadmin_urls)),",
   "    path('documents/', include(wagtaildocs_urls)),",
   "    path(\"accounts/\", include(\"allauth.urls\")),",
   "    path('', include(apps.get_app_config('oscar').urls[0])),",
   "    path('', include(wagtail_urls)),",
   "] + static(settings.MEDIA_URL, document_root=settings.MEDIA_ROOT)",
   "",
   "if settings.DEBUG:",
   "    if \"debug_toolbar\" in settings.INSTALLED_APPS:",
   "        import debug_toolbar",
   "        urlpatterns = [path(\"__debug__/\", include(debug_toolbar.urls))] + urlpatterns"
 >>

\* full_diagnostic.py:129, "apps.get_app_config('oscar')" in a line of urls.py
HasOscarAppConfig(line) ==
  line \in { "    path('', include(apps.get_app_config('oscar').urls[0]))," }

\* full_diagnostic.py:138, 'wagtailadmin_urls' in a line
HasWagtailAdminUrls(line) ==
  line \in { "from wagtail.admin import urls as wagtailadmin_urls",
             "    path('cms/', include(wagtailadmin_urls))," }

\* full_diagnostic.py:141, 'wagtail_urls' in a line
HasWagtailUrls(line) ==
  line \in { "from wagtail import urls as wagtail_urls",
             "    path('', include(wagtail_urls))," }

\* full_diagnostic.py:145, 'from django.apps import apps' in a line
HasAppsImport(line) ==
  line \in { "from django.apps import apps" }

\* an entry of the urlpatterns list (config/urls.py:12-35, update_urls.py:19-24, full_diagnostic.py:211-217)
IsRoute(line) ==
  line \in { "    path(\"admin/\", admin.site.urls),",
             "    path('i18n/', include('django.conf.urls.i18n')),",
             "    path('api/v1/', include('maida_vale.api.v1.urls')),",
             "    path('cms/', include(wagtailadmin_urls)),",
             "    path('documents/', include(wagtaildocs_urls)),",
             "    path(\"accounts/\", include(\"allauth.urls\")),",
             "    path('', include(apps.get_app_config('oscar').urls[0])),",
             "    path('', include(wagtail_urls)),",
             "    path(settings.ADMIN_URL, admin.site.urls),",
             "    path(\"users/\", include(\"maida_vale.users.urls\", namespace=\"users\")),",
             "    path(\"\", oscar_app.urls)," }

\* the route that includes the Oscar application's URLs (config/urls.py:30, update_urls.py:23, full_diagnostic.py:215)
IsOscarRoute(line) ==
  line \in { "    path('', include(apps.get_app_config('oscar').urls[0])),",
             "    path(\"\", oscar_app.urls)," }

\* Wagtail's catch-all route (config/urls.py:33, full_diagnostic.py:216)
IsCatchAll(line) ==
  line \in { "    path('', include(wagtail_urls))," }

----------------------------------------------------------------------------
(* The project tree the inspectors look at *)

\* comprehensive_validation.py:135-146
cookiecutter_dirs ==
  <<"config/settings", "maida_vale/users", "maida_vale/static", "maida_vale/templates",
    "utility", "docs", "locale", "media", "staticfiles", "logs">>

\* comprehensive_validation.py:148-155
cookiecutter_files ==
  <<"config/urls.py", "config/wsgi.py", "config/asgi.py", "manage.py", ".env",
    "pyproject.toml">>

\* comprehensive_validation.py:185
custom_apps == <<"users", "nesosa", "manufacturing", "uk_compliance">>

\* comprehensive_validation.py:189, self.project_root / 'maida_vale' / app
AppDir(app) ==
  CASE app = "users" -> "maida_vale/users"
    [] app = "nesosa" -> "maida_vale/nesosa"
    [] app = "manufacturing" -> "maida_vale/manufacturing"
    [] app = "uk_compliance" -> "maida_vale/uk_compliance"

\* comprehensive_validation.py:194-196, the three files looked for in an app
AppFiles(app) ==
  CASE app = "users" -> {"maida_vale/users/models.py", "maida_vale/users/views.py",
                         "maida_vale/users/__init__.py"}
    [] app = "nesosa" -> {"maida_vale/nesosa/models.py", "maida_vale/nesosa/views.py",
                          "maida_vale/nesosa/__init__.py"}
    [] app = "manufacturing" -> {"maida_vale/manufacturing/models.py",
                                 "maida_vale/manufacturing/views.py",
                                 "maida_vale/manufacturing/__init__.py"}
    [] app = "uk_compliance" -> {"maida_vale/uk_compliance/models.py",
                                 "maida_vale/uk_compliance/views.py",
                                 "maida_vale/uk_compliance/__init__.py"}

\* comprehensive_validation.py:238-242, settings_dir / file
settings_files ==
  <<"config/settings/base.py", "config/settings/local.py",
    "config/settings/production.py", "config/settings/test.py">>

\* comprehensive_validation.py:380
required_dirs ==
  <<"logs", "media", "staticfiles", "maida_vale/static", "maida_vale/templates">>

AppNames == {custom_apps[i] : i \in 1..Len(custom_apps)}

AllPaths ==
  {cookiecutter_dirs[i] : i \in 1..Len(cookiecutter_dirs)}
  \cup {cookiecutter_files[i] : i \in 1..Len(cookiecutter_files)}
  \cup {settings_files[i] : i \in 1..Len(settings_files)}
  \cup {AppDir(a) : a \in AppNames}
  \cup UNION {AppFiles(a) : a \in AppNames}

\* the paths that lie inside directory d
Inside(d) ==
  IF d = "config/settings" THEN {settings_files[i] : i \in 1..Len(settings_files)}
  ELSE UNION {AppFiles(a) : a \in {b \in AppNames : AppDir(b) = d}}

\* the paths that are gone when the paths of g are: g and all that lies inside
Under(g) == g \cup UNION {Inside(d) : d \in g}

----------------------------------------------------------------------------
(* full_diagnostic.py: ProjectDiagnostic.                                  *)
(* A finding is the tuple of the pieces of its message: the fixed text and *)
(* the values formatted into it; the text of an exception is the name of   *)
(* its class.                                                              *)

\* lines of a .env file
SecretReal == "DJANGO_SECRET_KEY=s3cr3t"
SecretPlaceholder == "DJANGO_SECRET_KEY=your-secret-key-here"
SecretQuoted == "DJANGO_SECRET_KEY='your-secret-key-here'"
DbReal == "DATABASE_URL=postgres://localhost/maida_vale"
DbPlaceholder == "DATABASE_URL=your-database-url"
\* a template line left in the file as a comment
SecretComment == "# DJANGO_SECRET_KEY=your-secret-key-here"
\* a placeholder between double quotes
SecretDouble == "DJANGO_SECRET_KEY=\"your-secret-key-here\""
\* an assignment to another variable
DbTest == "TEST_DATABASE_URL=your-test-database-url"

\* var in env_content, for the line of env_content that holds it
HasVar(var, line) ==
  CASE var = "DJANGO_SECRET_KEY" ->
         line \in {SecretReal, SecretPlaceholder, SecretQuoted, SecretComment, SecretDouble}
    [] var = "DATABASE_URL" -> line \in {DbReal, DbPlaceholder, DbTest}

\* f"{var}=your-" in env_content or f"{var}='your-" in env_content
HasPlaceholder(var, line) ==
  CASE var = "DJANGO_SECRET_KEY" -> line \in {SecretPlaceholder, SecretQuoted, SecretComment}
    [] var = "DATABASE_URL" -> line \in {DbPlaceholder, DbTest}

\* a line of base.py that assigns AUTH_USER_MODEL
AuthUserModel == "AUTH_USER_MODEL = \"users.User\""

EnvPath == ".env"
BasePath == "config/settings/base.py"
UrlsPath == "config/urls.py"
UserModelPath == "maida_vale/users/models.py"
TemplatesPath == "maida_vale/templates"
StaticPath == "maida_vale/static"

\* the lists of an inspector that shares its lists with the inspector before it
StaleFindings == [issues |-> issues, warnings |-> warnings, fixes |-> fixes, raised |-> FALSE]

\* the lists of a fresh inspector; raised: an exception left the last check
NoFindings == [issues |-> <<>>, warnings |-> <<>>, fixes |-> <<>>, raised |-> FALSE]

AddIssue(f, issue) == [f EXCEPT !.issues = Append(@, issue)]
AddWarning(f, warning) == [f EXCEPT !.warnings = Append(@, warning)]
AddFix(f, fix) == [f EXCEPT !.fixes = Append(@, fix)]
Raise(f) == [f EXCEPT !.raised = TRUE]

\* full_diagnostic.py:49-59, one turn of the loop over the two variables
EnvIssue(var) ==
  IF ~(\E i \in 1..Len(env) : HasVar(var, env[i]))
  THEN << <<"Missing ", var, " in .env">> >>
  ELSE IF \E i \in 1..Len(env) : HasPlaceholder(var, env[i])
       THEN << <<var, " has placeholder value in .env">> >>
       ELSE <<>>

\* full_diagnostic.py:41-61; open() and read() are not guarded
check_environment(f) ==
  IF EnvPath \in exists
  THEN IF EnvPath \in unreadable
       THEN Raise(f)
       ELSE [f EXCEPT !.issues = @ \o EnvIssue("DJANGO_SECRET_KEY") \o EnvIssue("DATABASE_URL")]
  ELSE AddIssue(f, <<".env file missing">>)

\* full_diagnostic.py:84-87
required_packages ==
  <<"corsheaders", "drf_spectacular", "argon2", "whitenoise", "fido2", "django_celery_beat">>

\* full_diagnostic.py:89-93, the loop from its k-th turn on
RECURSIVE PackageIssues(_)
PackageIssues(k) ==
  IF k > Len(required_packages) THEN <<>>
  ELSE (IF required_packages[k] \in sys.missing
        THEN << <<"Missing package: ", required_packages[k]>> >>
        ELSE <<>>) \o PackageIssues(k + 1)

\* full_diagnostic.py:62-93
check_dependencies(f) ==
  [f EXCEPT !.issues =
     @ \o (IF "django" \in sys.missing THEN << <<"Django not installed">> >> ELSE <<>>)
       \o (IF "oscar" \in sys.missing THEN << <<"Django-Oscar not installed">> >> ELSE <<>>)
       \o (IF "wagtail" \in sys.missing THEN << <<"Wagtail not installed">> >> ELSE <<>>)
       \o PackageIssues(1)]

\* full_diagnostic.py:96-119; every exception inside is caught and reported
check_settings(f) ==
  IF "django" \in sys.missing
  THEN AddIssue(f, <<"Cannot load settings: ", "ImportError">>)
  ELSE IF BasePath \in exists /\ BasePath \in unreadable
  THEN AddIssue(f, <<"Cannot load settings: ", "OSError">>)
  ELSE LET f1 == IF BasePath \in exists /\ ~(\E i \in 1..Len(base) : HasDefaultsImport(base[i]))
                 THEN AddIssue(f, <<"Oscar defaults not imported in base.py">>)
                 ELSE f
       IN  IF "check_settings" \in sys.failing
           THEN AddIssue(f1, <<"Cannot load settings: ", "ImproperlyConfigured">>)
           ELSE IF sys.duplicates
                THEN AddIssue(f1, <<"Duplicate apps in INSTALLED_APPS: ", "duplicates">>)
                ELSE f1

\* full_diagnostic.py:132-136
MissingOscarUrlsFix ==
  [file |-> "config/urls.py", issue |-> "Missing Oscar URLs",
   fix |-> "Add: path('', include(apps.get_app_config('oscar').urls[0])),"]

OscarUrlsIssue == <<"Oscar URLs not included in config/urls.py">>

\* full_diagnostic.py:121-147; open() and read() are not guarded
check_urls(f) ==
  IF UrlsPath \in exists
  THEN IF UrlsPath \in unreadable
       THEN Raise(f)
       ELSE LET f1 == IF ~(\E i \in 1..Len(urls) : HasOscarAppConfig(urls[i]))
                      THEN AddFix(AddIssue(f, OscarUrlsIssue), MissingOscarUrlsFix)
                      ELSE f
                f2 == IF ~(\E i \in 1..Len(urls) : HasWagtailAdminUrls(urls[i]))
                      THEN AddIssue(f1, <<"Wagtail admin URLs not included">>)
                      ELSE f1
                f3 == IF ~(\E i \in 1..Len(urls) : HasWagtailUrls(urls[i]))
                      THEN AddIssue(f2, <<"Wagtail URLs not included">>)
                      ELSE f2
            IN  IF ~(\E i \in 1..Len(urls) : HasAppsImport(urls[i]))
                THEN AddIssue(f3, <<"Missing 'from django.apps import apps' import">>)
                ELSE f3
  ELSE f

\* full_diagnostic.py:148-154
check_models(f) ==
  IF UserModelPath \notin exists THEN AddIssue(f, <<"Custom user model file missing">>) ELSE f

\* full_diagnostic.py:156-173
check_migrations(f) ==
  IF "django" \in sys.missing
  THEN AddWarning(f, <<"Cannot check migrations: ", "ImportError">>)
  ELSE IF "check_migrations" \in sys.failing
  THEN AddWarning(f, <<"Cannot check migrations: ", "ImproperlyConfigured">>)
  ELSE IF sys.unapplied
  THEN AddWarning(f, <<"Unapplied migrations detected">>)
  ELSE f

\* full_diagnostic.py:175-181
diag_check_templates(f) ==
  IF TemplatesPath \notin exists THEN AddWarning(f, <<"Templates directory missing">>) ELSE f

\* full_diagnostic.py:183-188
check_static_files(f) ==
  IF StaticPath \notin exists THEN AddWarning(f, <<"Static directory missing">>) ELSE f

UrlFixStale == [description |-> "Fix URL configuration", script |-> urls_content]

\* full_diagnostic.py:195-224, the fix that carries the script
UrlFix == [description |-> "Fix URL configuration", script |-> fixed_urls]

\* full_diagnostic.py:190-225
generate_fixes(f) ==
  IF \E i \in 1..Len(f.issues) : f.issues[i] = OscarUrlsIssue
  THEN AddFix(f, UrlFix)
  ELSE f

\* full_diagnostic.py:30-38, the checks in the order run_all_checks calls them
DiagnosticChecks ==
  <<"check_environment", "check_dependencies", "check_settings", "check_urls",
    "check_models", "check_migrations", "check_templates", "check_static_files",
    "generate_fixes">>

DiagnosticCheck(name, f) ==
  CASE name = "check_environment" -> check_environment(f)
    [] name = "check_dependencies" -> check_dependencies(f)
    [] name = "check_settings" -> check_settings(f)
    [] name = "check_urls" -> check_urls(f)
    [] name = "check_models" -> check_models(f)
    [] name = "check_migrations" -> check_migrations(f)
    [] name = "check_templates" -> diag_check_templates(f)
    [] name = "check_static_files" -> check_static_files(f)
    [] name = "generate_fixes" -> generate_fixes(f)

\* full_diagnostic.py:30-38: the calls from the k-th on; an exception that
\* leaves a check ends the run there.  The result carries the checks entered.
RECURSIVE DiagnosticFrom(_, _)
DiagnosticFrom(k, f) ==
  IF k > Len(DiagnosticChecks) THEN [f EXCEPT !.raised = FALSE]
  ELSE LET g == DiagnosticCheck(DiagnosticChecks[k], f)
       IN  IF g.raised THEN g ELSE DiagnosticFrom(k + 1, g)

\* the number of checks run_all_checks enters before it returns or dies
RECURSIVE DiagnosticEntered(_, _)
DiagnosticEntered(k, f) ==
  IF k > Len(DiagnosticChecks) THEN Len(DiagnosticChecks)
  ELSE LET g == DiagnosticCheck(DiagnosticChecks[k], f)
       IN  IF g.raised THEN k ELSE DiagnosticEntered(k + 1, g)

WritesFixScriptAlways(f) == TRUE

\* full_diagnostic.py:244-250: write_fix_script is called when fixes is not empty
WritesFixScript(f) == f.fixes # <<>>

\* full_diagnostic.py:250-267: the scripts auto_fix.py holds, in order
RECURSIVE FixScripts(_)
FixScripts(fs) ==
  IF fs = <<>> THEN <<>>
  ELSE (IF "script" \in DOMAIN Head(fs) THEN <<Head(fs).script>> ELSE <<>>)
       \o FixScripts(Tail(fs))

----------------------------------------------------------------------------
(* comprehensive_validation.py: ProjectValidator *)

\* comprehensive_validation.py:22-30, the lists of a fresh validator;
\* created: the directories made so far; raised: an exception left the last check
NoResults ==
  [issues |-> <<>>, warnings |-> <<>>, fixes |-> <<>>, structure_valid |-> TRUE,
   created |-> {}, raised |-> FALSE]

\* import of a framework fails, or what the check asks of it raises
Fails(check, package) == check \in sys.failing \/ package \in sys.missing

\* comprehensive_validation.py:63-89
check_django_setup(r) ==
  IF Fails("check_django_setup", "django")
  THEN AddIssue(r, <<"Django setup failed: ", "Exception">>)
  ELSE IF sys.duplicates
       THEN AddIssue(r, <<"Duplicate apps: ", "duplicates">>)
       ELSE r

\* comprehensive_validation.py:91-108
check_wagtail_setup(r) ==
  IF Fails("check_wagtail_setup", "wagtail")
  THEN AddWarning(r, <<"Wagtail not fully configured: ", "Exception">>)
  ELSE r

\* comprehensive_validation.py:110-129
check_oscar_setup(r) ==
  IF Fails("check_oscar_setup", "oscar")
  THEN AddWarning(r, <<"Oscar not configured: ", "Exception">>)
  ELSE r

\* comprehensive_validation.py:157-162, the loop from its k-th turn on
RECURSIVE DirectoryLoop(_, _)
DirectoryLoop(k, r) ==
  IF k > Len(cookiecutter_dirs) THEN r
  ELSE DirectoryLoop(k + 1,
         IF cookiecutter_dirs[k] \notin exists
         THEN [AddWarning(r, <<"Missing directory: ", cookiecutter_dirs[k]>>)
                 EXCEPT !.structure_valid = FALSE]
         ELSE r)

\* comprehensive_validation.py:164-168, the loop from its k-th turn on
RECURSIVE FileLoop(_, _)
FileLoop(k, r) ==
  IF k > Len(cookiecutter_files) THEN r
  ELSE FileLoop(k + 1,
         IF cookiecutter_files[k] \notin exists
         THEN [AddIssue(r, <<"Missing file: ", cookiecutter_files[k]>>)
                 EXCEPT !.structure_valid = FALSE]
         ELSE r)

check_directories_only(r) == DirectoryLoop(1, [r EXCEPT !.structure_valid = TRUE])

\* comprehensive_validation.py:131-178
check_cookiecutter_structure(r) ==
  FileLoop(1, DirectoryLoop(1, [r EXCEPT !.structure_valid = TRUE]))

\* comprehensive_validation.py:186-209, the loop from its k-th turn on
RECURSIVE AppLoop(_, _)
AppLoop(k, r) ==
  IF k > Len(custom_apps) THEN r
  ELSE LET app == custom_apps[k]
       IN  AppLoop(k + 1,
             IF AppDir(app) \in exists
             THEN IF ~(AppFiles(app) \subseteq exists)
                  THEN AddWarning(r, <<"App ", app, " missing components">>)
                  ELSE r
             ELSE AddIssue(r, <<"App ", app, " not found">>))

\* comprehensive_validation.py:180-209
check_project_structure(r) == AppLoop(1, r)

\* comprehensive_validation.py:220-225
required_apps ==
  <<"maida_vale.users", "maida_vale.nesosa", "maida_vale.manufacturing",
    "maida_vale.uk_compliance">>

\* comprehensive_validation.py:227-229, the loop from its k-th turn on
RECURSIVE RegisteredLoop(_, _)
RegisteredLoop(k, r) ==
  IF k > Len(required_apps) THEN r
  ELSE RegisteredLoop(k + 1,
         IF required_apps[k] \in sys.unregistered
         THEN AddIssue(r, <<"App ", required_apps[k], " not registered in INSTALLED_APPS">>)
         ELSE r)

\* comprehensive_validation.py:211-232
check_app_structure(r) ==
  IF Fails("check_app_structure", "django")
  THEN AddIssue(r, <<"Cannot check registered apps: ", "Exception">>)
  ELSE RegisteredLoop(1, r)

\* 'import environ' in content
HasImportEnviron(line) == line \in {ImportEnviron}
\* 'AUTH_USER_MODEL' in content
HasAuthUserModel(line) == line \in {AuthUserModel}

\* comprehensive_validation.py:247-255, the findings about base.py
BaseChecks(r) ==
  LET r1 == IF ~(\E i \in 1..Len(base) : HasDefaultsImport(base[i]))
            THEN AddIssue(r, <<"Missing in base.py: ", "oscar_defaults">>) ELSE r
      r2 == IF ~(\E i \in 1..Len(base) : HasImportEnviron(base[i]))
            THEN AddIssue(r1, <<"Missing in base.py: ", "environ">>) ELSE r1
  IN  IF ~(\E i \in 1..Len(base) : HasAuthUserModel(base[i]))
      THEN AddIssue(r2, <<"Missing in base.py: ", "auth_user_model">>) ELSE r2

\* comprehensive_validation.py:241-255, the loop from its k-th turn on;
\* open() and read() are not guarded
RECURSIVE SettingsLoop(_, _)
SettingsLoop(k, r) ==
  IF k > Len(settings_files) THEN r
  ELSE LET file == settings_files[k]
       IN  IF file \notin exists THEN SettingsLoop(k + 1, r)
           ELSE IF file \in unreadable THEN Raise(r)
           ELSE SettingsLoop(k + 1, IF file = BasePath THEN BaseChecks(r) ELSE r)

\* comprehensive_validation.py:234-255
check_settings_structure(r) == SettingsLoop(1, r)

\* comprehensive_validation.py:258-278
check_authentication(r) ==
  IF Fails("check_authentication", "django")
  THEN AddIssue(r, <<"Authentication check failed: ", "Exception">>)
  ELSE r

\* comprehensive_validation.py:280-300
check_api_setup(r) ==
  IF Fails("check_api_setup", "django")
  THEN AddWarning(r, <<"API check failed: ", "Exception">>)
  ELSE r

\* comprehensive_validation.py:302-320: no finding, every exception swallowed
check_celery_setup(r) == r

\* comprehensive_validation.py:322-345
check_static_media(r) ==
  IF Fails("check_static_media", "django")
  THEN AddIssue(r, <<"Static/Media check failed: ", "Exception">>)
  ELSE LET r1 == IF "STATIC_ROOT" \in sys.noroot
                 THEN AddWarning(r, <<"STATIC_ROOT directory doesn't exist">>) ELSE r
       IN  IF "MEDIA_ROOT" \in sys.noroot
           THEN AddWarning(r1, <<"MEDIA_ROOT directory doesn't exist">>) ELSE r1

\* comprehensive_validation.py:347-356: no finding
check_templates(r) == r

\* comprehensive_validation.py:358-374
check_database(r) ==
  IF Fails("check_database", "django")
  THEN AddIssue(r, <<"Database connection failed: ", "Exception">>)
  ELSE r

\* comprehensive_validation.py:381-385, the loop from its k-th turn on
RECURSIVE FixLoop(_, _)
FixLoop(k, r) ==
  IF k > Len(required_dirs) THEN r
  ELSE FixLoop(k + 1,
         IF required_dirs[k] \notin (exists \cup r.created)
         THEN [AddFix(r, <<"Created directory: ", required_dirs[k]>>)
                 EXCEPT !.created = @ \cup {required_dirs[k]}]
         ELSE r)

apply_fixes_unconditionally(r) ==
  [AddFix(r, <<"Created directory: ", required_dirs[1]>>)
     EXCEPT !.created = @ \cup {required_dirs[1]}]

\* comprehensive_validation.py:376-385
apply_automatic_fixes(r) == FixLoop(1, r)

\* comprehensive_validation.py:38-58, the checks in the order run_validation calls them
ValidatorChecks ==
  <<"check_django_setup", "check_wagtail_setup", "check_cookiecutter_structure",
    "check_oscar_setup", "check_project_structure", "check_app_structure",
    "check_settings_structure", "check_authentication", "check_api_setup",
    "check_celery_setup", "check_static_media", "check_templates", "check_database",
    "apply_automatic_fixes">>

ValidatorCheck(name, r) ==
  CASE name = "check_django_setup" -> check_django_setup(r)
    [] name = "check_wagtail_setup" -> check_wagtail_setup(r)
    [] name = "check_cookiecutter_structure" -> check_cookiecutter_structure(r)
    [] name = "check_oscar_setup" -> check_oscar_setup(r)
    [] name = "check_project_structure" -> check_project_structure(r)
    [] name = "check_app_structure" -> check_app_structure(r)
    [] name = "check_settings_structure" -> check_settings_structure(r)
    [] name = "check_authentication" -> check_authentication(r)
    [] name = "check_api_setup" -> check_api_setup(r)
    [] name = "check_celery_setup" -> check_celery_setup(r)
    [] name = "check_static_media" -> check_static_media(r)
    [] name = "check_templates" -> check_templates(r)
    [] name = "check_database" -> check_database(r)
    [] name = "apply_automatic_fixes" -> apply_automatic_fixes(r)

\* comprehensive_validation.py:38-58: the calls from the k-th on; an exception
\* that leaves a check ends the run there
RECURSIVE ValidationFrom(_, _)
ValidationFrom(k, r) ==
  IF k > Len(ValidatorChecks) THEN r
  ELSE LET s == ValidatorCheck(ValidatorChecks[k], r)
       IN  IF s.raised THEN s ELSE ValidationFrom(k + 1, s)

\* the number of checks run_validation enters before it returns or dies
RECURSIVE ValidationEntered(_, _)
ValidationEntered(k, r) ==
  IF k > Len(ValidatorChecks) THEN Len(ValidatorChecks)
  ELSE LET s == ValidatorCheck(ValidatorChecks[k], r)
       IN  IF s.raised THEN k ELSE ValidationEntered(k + 1, s)

----------------------------------------------------------------------------
(* project_structure_analyzer.py: ProjectStructureAnalyzer.                *)
(* The object is the record of its three lists; a strength is recorded     *)
(* without its leading check-mark character.                               *)

Join(dir, name) == dir \o "/" \o name

\* project_structure_analyzer.py:38-48, the keys and the values of standard_dirs
standard_dirs ==
  <<"config", "maida_vale", "docs", "tests", "locale", "utility", "staticfiles", "media",
    "logs">>

purposes ==
  <<"Configuration module", "Main application module", "Documentation", "Test suite",
    "Internationalization", "Utility scripts", "Collected static files", "User uploads",
    "Application logs">>

\* project_structure_analyzer.py:51-57, purpose.lower() of the one directory it is taken of
lower_purpose(k) == IF standard_dirs[k] = "logs" THEN "application logs" ELSE purposes[k]

\* project_structure_analyzer.py:71-80 and 85, the expected files that are not exempt
expected_files == <<"models.py", "views.py", "admin.py", "apps.py">>

\* project_structure_analyzer.py:144
modular_apps == <<"nesosa", "manufacturing", "uk_compliance">>

\* project_structure_analyzer.py:115
cleanup_limit == 10

\* project_structure_analyzer.py:122
pycache_limit == 5

\* project_structure_analyzer.py:133
settings_limit == 4

\* project_structure_analyzer.py:14-19
NewAnalyzer == [issues |-> <<>>, strengths |-> <<>>, recommendations |-> <<>>, standard_dirs |-> 0]

AddStrength(a, s) == [a EXCEPT !.strengths = Append(@, s)]

AddAnalyzerIssue(a, i) == [a EXCEPT !.issues = Append(@, i)]

Recommend(a, r) == [a EXCEPT !.recommendations = Append(@, r)]

\* project_structure_analyzer.py:50-57, the loop from its k-th turn on
RECURSIVE StandardDirLoop(_, _)
StandardDirLoop(k, a) ==
  IF k > Len(standard_dirs) THEN a
  ELSE StandardDirLoop(k + 1,
         IF standard_dirs[k] \in exists
         THEN [AddStrength(a, <<standard_dirs[k], ": ", purposes[k]>>)
                 EXCEPT !.standard_dirs = @ + 1]
         ELSE IF standard_dirs[k] = "logs"
              THEN Recommend(a, <<"Create ", standard_dirs[k], " directory for ",
                                  lower_purpose(k)>>)
              ELSE a)

\* project_structure_analyzer.py:33-57
analyze_directory_structure(a) == StandardDirLoop(1, a)

\* project_structure_analyzer.py:82-86: the expected files the app lacks, in order
missing_files(app) ==
  SelectSeq(expected_files, LAMBDA f : Join(AppDir(app), f) \notin exists)

\* project_structure_analyzer.py:67-89, the loop from its k-th turn on
RECURSIVE AnalyzerAppLoop(_, _)
AnalyzerAppLoop(k, a) ==
  IF k > Len(custom_apps) THEN a
  ELSE LET app == custom_apps[k]
       IN  AnalyzerAppLoop(k + 1,
             IF AppDir(app) \in exists /\ missing_files(app) # <<>>
             THEN Recommend(a, <<app, ": Add ", missing_files(app)>>)
             ELSE a)

\* project_structure_analyzer.py:59-94
analyze_code_organization(a) ==
  LET b == AnalyzerAppLoop(1, a)
  IN  IF "maida_vale/api" \notin exists
      THEN Recommend(b, <<"Consider creating maida_vale/api/ for centralized API endpoints">>)
      ELSE b

\* project_structure_analyzer.py:96-123
analyze_cleanup_needs(a) ==
  LET b == IF tree.cleanup > cleanup_limit
           THEN Recommend(Recommend(
                  AddAnalyzerIssue(a, <<"Found ", tree.cleanup,
                                        " temporary/backup files that should be cleaned">>),
                  <<"Move diagnostic scripts to utility/diagnostics/">>),
                  <<"Delete or archive old backup files">>)
           ELSE a
  IN  IF tree.pycache > pycache_limit
      THEN Recommend(b, <<"Clean ", tree.pycache, " __pycache__ directories">>)
      ELSE b

\* project_structure_analyzer.py:133: config_settings.glob('*.py')
SettingsModules ==
  {settings_files[i] : i \in 1..Len(settings_files)} \cup {"config/settings/__init__.py"}

\* project_structure_analyzer.py:143-147
apps_with_submodules ==
  Cardinality({k \in 1..Len(modular_apps) :
                 \/ Join(AppDir(modular_apps[k]), "models") \in exists
                 \/ Join(AppDir(modular_apps[k]), "views") \in exists})

\* project_structure_analyzer.py:125-150
analyze_scalability(a) ==
  LET b == IF "config/settings" \in exists
           THEN IF Cardinality(SettingsModules \cap exists) >= settings_limit
                THEN AddStrength(a, <<"Environment-specific settings properly separated">>)
                ELSE AddAnalyzerIssue(a, <<"Missing environment-specific settings files">>)
           ELSE a
      c == IF "maida_vale/api/v1" \notin exists
           THEN Recommend(b, <<"Structure API with versioning (api/v1/) for future compatibility">>)
           ELSE b
  IN  IF apps_with_submodules > 0
      THEN AddStrength(c, <<apps_with_submodules, " apps use modular structure">>)
      ELSE c

\* analyze_best_practices recording the absent CI/CD configuration as an issue
analyze_best_practices_strict(a) ==
  LET b == IF "pyproject.toml" \in exists
           THEN AddStrength(a, <<"Using pyproject.toml for dependency management">>) ELSE a
      c == IF "uv.lock" \in exists
           THEN AddStrength(b, <<"Using uv for fast dependency resolution">>) ELSE b
      d == IF tree.docker > 0
           THEN AddStrength(c, <<"Docker configuration present">>) ELSE c
      e == IF ".github/workflows" \in exists
           THEN AddStrength(d, <<"GitHub Actions CI/CD configured">>)
           ELSE AddAnalyzerIssue(d, <<"Add CI/CD configuration (.github/workflows/)">>)
  IN  IF "README.md" \in exists
      THEN AddStrength(e, <<"README documentation present">>) ELSE e

\* project_structure_analyzer.py:152-175
analyze_best_practices(a) ==
  LET b == IF "pyproject.toml" \in exists
           THEN AddStrength(a, <<"Using pyproject.toml for dependency management">>) ELSE a
      c == IF "uv.lock" \in exists
           THEN AddStrength(b, <<"Using uv for fast dependency resolution">>) ELSE b
      d == IF tree.docker > 0
           THEN AddStrength(c, <<"Docker configuration present">>) ELSE c
      e == IF ".github/workflows" \in exists
           THEN AddStrength(d, <<"GitHub Actions CI/CD configured">>)
           ELSE Recommend(d, <<"Add CI/CD configuration (.github/workflows/)">>)
  IN  IF "README.md" \in exists
      THEN AddStrength(e, <<"README documentation present">>) ELSE e

Max(x, y) == IF x >= y THEN x ELSE y

Min(x, y) == IF x <= y THEN x ELSE y

\* _calculate_score without its cap at 100
_calculate_score_uncapped(a) == Max(0, 50 + Len(a.strengths) * 3 - Len(a.issues) * 5)

\* project_structure_analyzer.py:244-255
_calculate_score(a) == Max(0, Min(100, 50 + Len(a.strengths) * 3 - Len(a.issues) * 5))

\* project_structure_analyzer.py:225-232
StatusOf(score) ==
  IF score >= 80 THEN "Excellent - Production ready"
  ELSE IF score >= 60 THEN "Good - Minor improvements needed"
  ELSE IF score >= 40 THEN "Fair - Significant improvements recommended"
  ELSE "Needs work - Major restructuring recommended"

\* project_structure_analyzer.py:180-188: the report dict, built at the instant now
ReportOf(a, now) ==
  <<"structure_analysis", now, a.standard_dirs, a.strengths, a.issues, a.recommendations,
    _calculate_score(a)>>

\* the structure_score entry of a report dict
structure_score(r) == r[7]

\* project_structure_analyzer.py:21-31, the five analyses of analyze() in order
Analysis(a) ==
  analyze_best_practices(analyze_scalability(analyze_cleanup_needs(
    analyze_code_organization(analyze_directory_structure(a)))))

----------------------------------------------------------------------------
(* The management scripts: migration 0003 of the sites app, manage_safe.py *)
(* and create_admin_direct.py, over the database rows they touch and the   *)
(* environment of their process.                                           *)

Unset == "<unset>"

\* the row id=1 of a Site table
row1(table) == CHOOSE r \in table : r.id = 1

\* 0003_set_site_domain_and_name.py:11-22: get_or_create(id=1, defaults) and,
\* for a row that was there, the two assignments and save()
update_site_forward(table) ==
  IF \A r \in table : r.id # 1
  THEN table \cup {[id |-> 1, domain |-> "localhost:8000",
                    name |-> "Salbion Local Development"]}
  ELSE (table \ {row1(table)})
       \cup {[row1(table) EXCEPT !.domain = "localhost:8000",
                                 !.name = "Salbion Local Development"]}

\* 0003_set_site_domain_and_name.py:27: Site.objects.get(id=1) raises DoesNotExist
backward_raises(table) == \A r \in table : r.id # 1

\* 0003_set_site_domain_and_name.py:24-30
update_site_backward(table) ==
  (table \ {row1(table)})
  \cup {[row1(table) EXCEPT !.domain = "example.com", !.name = "example.com"]}

\* manage_safe.py:8-11 and create_admin_direct.py:5-6: os.environ after
\* setdefault and the assignment
SafeEnviron(e) ==
  [e EXCEPT !.DJANGO_SETTINGS_MODULE = IF @ = Unset THEN "config.settings.local" ELSE @,
            !.DATABASE_URL = "sqlite:///db.sqlite3"]

\* create_admin_direct.py:15: User.objects.filter(username='admin').delete()
delete_admin(table) == {u \in table : u.username # "admin"}

\* the next value of the table's id column
NextId(table) ==
  1 + (IF table = {} THEN 0
       ELSE CHOOSE n \in {u.id : u \in table} : \A u \in table : u.id <= n)

\* UserManager.create_user as called with the arguments of create_admin_direct.py:18-22
create_user(table, seen) ==
  table \cup {[id |-> NextId(seen), username |-> "admin", email |-> "admin@localhost",
               is_superuser |-> FALSE]}

\* create_admin_direct.py:18-22: User.objects.create_superuser(username='admin',
\* email='admin@localhost', ...); seen is the table the id sequence has seen
create_superuser(table, seen) ==
  table \cup {[id |-> NextId(seen), username |-> "admin", email |-> "admin@localhost",
               is_superuser |-> TRUE]}

----------------------------------------------------------------------------
(* The states an inspector can meet: a sound project with a bounded number *)
(* of deviations                                                           *)

HealthyEnv == <<SecretReal, DbReal>>
HealthyBase == <<ImportEnviron, AuthUserModel, DefaultsImport>>

\* config/urls.py:1-40 without the Oscar route (lines 29-31)
UrlsNoOscar == SubSeq(RepoUrls, 1, 28) \o SubSeq(RepoUrls, 32, Len(RepoUrls))
\* config/urls.py:1-40 without 'from django.apps import apps' (line 5)
UrlsNoImport == SubSeq(RepoUrls, 1, 4) \o SubSeq(RepoUrls, 6, Len(RepoUrls))

EnvFiles ==
  {<<>>, <<SecretReal>>, <<DbReal>>, <<SecretPlaceholder, DbReal>>, <<SecretQuoted, DbReal>>,
   <<SecretReal, DbPlaceholder>>, <<SecretPlaceholder, DbPlaceholder>>}
UrlsFiles == {UrlsNoOscar, UrlsNoImport, urls_content}
BaseFiles == {<<>>, <<ImportEnviron, AuthUserModel>>, <<DefaultsImport>>}

\* full_diagnostic.py:64-93, the nine modules check_dependencies imports
Packages == {"django", "oscar", "wagtail"} \cup {required_packages[i] : i \in 1..Len(required_packages)}

HealthySys ==
  [missing |-> {}, failing |-> {}, duplicates |-> FALSE, unapplied |-> FALSE,
   unregistered |-> {}, noroot |-> {}]

\* the sets of at most k elements of S
RECURSIVE SetsUpTo(_, _)
SetsUpTo(S, k) ==
  IF k = 0 THEN {{}}
  ELSE LET T == SetsUpTo(S, k - 1) IN T \cup {t \cup {x} : t \in T, x \in S}

\* the second components of the deviations of kind in F
Of(F, kind) == {a[2] : a \in {b \in F : b[1] = kind}}

\* the content of a file under the deviations F
Content(F, kind, healthy) ==
  IF Of(F, kind) = {} THEN healthy ELSE CHOOSE c \in Of(F, kind) : TRUE

\* F holds at most one content for each file
OneContent(F) ==
  \A kind \in {"env", "urls", "base"} : Cardinality(Of(F, kind)) <= 1

\* the snapshot files a report writer can name within the seconds of the model
ReportPaths == {"validation_report", "structure_analysis"} \X (0..MaxClock)

NothingPrinted == [score |-> -1, status |-> "none"]

ReportsIdle ==
  /\ reports = [p \in ReportPaths |-> NoFile]
  /\ snapshots = <<>>
  /\ analyzer = NewAnalyzer
  /\ printed = NothingPrinted
  /\ report = NoFile

AnalyzerIdle ==
  /\ tree = [cleanup |-> 0, pycache |-> 0, docker |-> 0]
  /\ ReportsIdle

AdminIdle ==
  /\ site = {[id |-> 1, domain |-> "example.com", name |-> "example.com"]}
  /\ site0 = site
  /\ applied = FALSE
  /\ users = {}
  /\ users0 = users
  /\ environ = [DJANGO_SETTINGS_MODULE |-> Unset, DATABASE_URL |-> Unset]
  /\ called = <<>>
  /\ admin_runs = 0

ToolsIdle ==
  /\ tool = "none"
  /\ issues = <<>>
  /\ warnings = <<>>
  /\ fixes = <<>>
  /\ ran = <<>>
  /\ reported = FALSE
  /\ exitcode = -1
  /\ wrote = {}
  /\ autofix = NoFile
  /\ structure_valid = TRUE

ScriptsIdle ==
  /\ backups = [t \in 0..MaxClock |-> NoFile]
  /\ clock = 0
  /\ pc = "idle"
  /\ target = "base"
  /\ before = <<>>
  /\ pending = <<>>
  /\ out = <<>>
  /\ status = "none"
  /\ backedup = FALSE
  /\ history = <<>>
  /\ crashed = FALSE

\* the project in the state the deviations F describe
InitFrom(F) ==
  /\ exists = AllPaths \ Under(Of(F, "gone"))
  /\ existed = exists
  /\ unreadable = Of(F, "unreadable") \cap exists
  /\ env = Content(F, "env", HealthyEnv)
  /\ urls = Content(F, "urls", RepoUrls)
  /\ base = Content(F, "base", HealthyBase)
  /\ initial = base
  /\ sys = [missing |-> Of(F, "missing"), failing |-> Of(F, "failing"),
            duplicates |-> Of(F, "duplicates") # {}, unapplied |-> Of(F, "unapplied") # {},
            unregistered |-> Of(F, "unregistered"), noroot |-> Of(F, "noroot")]
  /\ ToolsIdle
  /\ ScriptsIdle
  /\ AnalyzerIdle
  /\ AdminIdle

----------------------------------------------------------------------------
(* The state machine *)

Script == IF history = <<>> THEN "none" ELSE history[Len(history)]

InitWith(files) ==
  /\ base \in files
  /\ initial = base
  /\ urls = RepoUrls
  /\ backups = [t \in 0..MaxClock |-> NoFile]
  /\ clock = 0
  /\ pc = "idle"
  /\ target = "base"
  /\ before = <<>>
  /\ pending = <<>>
  /\ out = <<>>
  /\ status = "none"
  /\ backedup = FALSE
  /\ history = <<>>
  /\ crashed = FALSE
  /\ env = HealthyEnv
  /\ exists = AllPaths
  /\ existed = AllPaths
  /\ unreadable = {}
  /\ sys = HealthySys
  /\ ToolsIdle
  /\ AnalyzerIdle
  /\ AdminIdle

\* a script prints msgs, then opens base.py for writing (which truncates it)
\* with new_content ready to be written
OpenBase(name, new_content, msgs) ==
  /\ pc = "idle"
  /\ history' = Append(history, name)
  /\ target' = "base"
  /\ before' = base
  /\ pending' = new_content
  /\ out' = msgs
  /\ base' = <<>>
  /\ pc' = "writing"
  /\ status' = "running"
  /\ UNCHANGED <<urls, clock, initial, crashed, toolVars, analyzerVars, adminVars>>

\* fix_middleware_order.py:5-25
RunFixMiddlewareOrder ==
  /\ OpenBase("fix_middleware_order", FixMiddlewareOrder(base), <<>>)
  /\ backedup' = FALSE
  /\ UNCHANGED backups

\* fix_flatpages.py:6-27
RunFixFlatpages ==
  /\ OpenBase("fix_flatpages", FixFlatpages(base), FixFlatpagesOut(base))
  /\ backedup' = FALSE
  /\ UNCHANGED backups

\* fix_allauth_settings.py:5-19
RunFixAllauthSettings ==
  /\ OpenBase("fix_allauth_settings", FixAllauthSettings(base), <<>>)
  /\ backedup' = FALSE
  /\ UNCHANGED backups

\* fix_local_apps.py:5-24
RunFixLocalApps ==
  /\ OpenBase("fix_local_apps", FixLocalApps(base), <<>>)
  /\ backedup' = FALSE
  /\ UNCHANGED backups

\* fix_oscar_settings.py:10-106; shutil.copy writes base.backup_<now> first
RunFixOscarSettings ==
  /\ OpenBase("fix_oscar_settings", FixOscarSettings(base), FixOscarSettingsOut(base))
  /\ backups' = [backups EXCEPT ![clock] = base]
  /\ backedup' = TRUE

\* fix_oscar_v4.py:10-121; shutil.copy writes base.backup_<now> first
RunFixOscarV4 ==
  /\ OpenBase("fix_oscar_v4", FixOscarV4(base), FixOscarV4Out(base))
  /\ backups' = [backups EXCEPT ![clock] = base]
  /\ backedup' = TRUE

\* fix_django_tables2.py:7-31
RunFixDjangoTables2 ==
  /\ OpenBase("fix_django_tables2", FixDjangoTables2(base), FixDjangoTables2Out(base))
  /\ backedup' = FALSE
  /\ UNCHANGED backups

\* fix_duplicate_tables2.py:7-41; the file is opened for writing only when
\* more than one occurrence was counted
RunFixDuplicateTables2 ==
  /\ IF occurrences(base) > 1
     THEN OpenBase("fix_duplicate_tables2", FixDuplicateTables2(base),
                   FixDuplicateTables2Out(base))
     ELSE /\ pc = "idle"
          /\ history' = Append(history, "fix_duplicate_tables2")
          /\ target' = "base"
          /\ before' = base
          /\ pending' = base
          /\ out' = FixDuplicateTables2Out(base)
          /\ status' = "done"
          /\ UNCHANGED <<base, pc, urls, clock, initial, crashed, toolVars, analyzerVars, adminVars>>
  /\ backedup' = FALSE
  /\ UNCHANGED backups

\* update_urls.py:51; open(..., 'w') creates or truncates config/urls.py
RunUpdateUrls ==
  /\ pc = "idle"
  /\ history' = Append(history, "update_urls")
  /\ target' = "urls"
  /\ before' = (IF UrlsPath \in exists THEN urls ELSE <<>>)
  /\ pending' = urls_content
  /\ out' = <<>>
  /\ urls' = <<>>
  /\ pc' = "writing"
  /\ status' = "running"
  /\ backedup' = FALSE
  /\ exists' = exists \cup {UrlsPath}
  /\ unreadable' = unreadable \ {UrlsPath}
  /\ UNCHANGED <<base, backups, clock, initial, crashed>>
  /\ UNCHANGED <<env, sys, tool, issues, warnings, fixes, ran, reported, exitcode, wrote,
                 autofix, structure_valid, existed>>
  /\ UNCHANGED <<analyzerVars, adminVars>>

\* full_diagnostic.py:25-39 and 273-275: one run of the diagnostic, from a
\* fresh ProjectDiagnostic to the end of the process.  The process ends with
\* status 0 when run_all_checks returns and with status 1 when an exception
\* leaves it.
RunAllChecks ==
  /\ pc = "idle"
  /\ LET f == DiagnosticFrom(1, NoFindings)
     IN  /\ issues' = f.issues
         /\ warnings' = f.warnings
         /\ fixes' = f.fixes
         /\ ran' = SubSeq(DiagnosticChecks, 1, DiagnosticEntered(1, NoFindings))
         /\ reported' = ~f.raised
         /\ exitcode' = IF f.raised THEN 1 ELSE 0
         /\ IF ~f.raised /\ WritesFixScript(f)
            THEN autofix' = FixScripts(f.fixes) /\ wrote' = {"auto_fix.py"}
            ELSE autofix' = autofix /\ wrote' = {}
  /\ tool' = "full_diagnostic"
  /\ history' = Append(history, "full_diagnostic")
  /\ status' = "done"
  /\ existed' = exists
  /\ UNCHANGED <<env, exists, unreadable, sys, structure_valid>>
  /\ UNCHANGED <<analyzerVars, adminVars>>
  /\ UNCHANGED <<base, urls, backups, clock, pc, target, before, pending, out, backedup,
                 initial, crashed>>

\* full_diagnostic.py:254-267: python auto_fix.py; the script it holds opens
\* config/urls.py for writing (which creates or truncates it)
RunAutoFix ==
  /\ pc = "idle"
  /\ autofix # NoFile
  /\ autofix # <<>>
  /\ history' = Append(history, "auto_fix")
  /\ target' = "urls"
  /\ before' = (IF UrlsPath \in exists THEN urls ELSE <<>>)
  /\ pending' = autofix[Len(autofix)]
  /\ out' = <<>>
  /\ urls' = <<>>
  /\ exists' = exists \cup {UrlsPath}
  /\ unreadable' = unreadable \ {UrlsPath}
  /\ pc' = "writing"
  /\ status' = "running"
  /\ backedup' = FALSE
  /\ UNCHANGED <<base, backups, clock, initial, crashed>>
  /\ UNCHANGED <<env, sys, tool, issues, warnings, fixes, ran, reported, exitcode, wrote,
                 autofix, structure_valid, existed>>
  /\ UNCHANGED <<analyzerVars, adminVars>>

\* comprehensive_validation.py:429 and project_structure_analyzer.py:235: the
\* path <name>_<now to the second>.json
ReportFile(name) == <<name, clock>>

\* comprehensive_validation.py:24-31 and 430-431: the results dict as dumped;
\* its timestamp is the instant the validator was constructed
ValidationReport(r, now) == <<"validation_report", now, r.issues, r.warnings, r.fixes>>

\* comprehensive_validation.py:33-61 and 443-445: one run of the validator,
\* from a fresh ProjectValidator to the end of the process; generate_report
\* writes the snapshot validation_report_<now>.json.  The process ends with
\* status 0 when run_validation returns and with status 1 when an exception
\* leaves it.
RunValidation ==
  /\ pc = "idle"
  /\ LET r == ValidationFrom(1, NoResults)
     IN  /\ issues' = r.issues
         /\ warnings' = r.warnings
         /\ fixes' = r.fixes
         /\ structure_valid' = r.structure_valid
         /\ exists' = exists \cup r.created
         /\ ran' = SubSeq(ValidatorChecks, 1, ValidationEntered(1, NoResults))
         /\ reported' = ~r.raised
         /\ exitcode' = IF r.raised THEN 1 ELSE 0
         /\ wrote' = IF r.raised THEN {} ELSE {"validation_report"}
         /\ IF r.raised
            THEN UNCHANGED <<reports, snapshots>>
            ELSE /\ reports' = [reports EXCEPT ![ReportFile("validation_report")] =
                                  ValidationReport(r, Len(history) + 1)]
                 /\ snapshots' = Append(snapshots, ReportFile("validation_report"))
  /\ tool' = "comprehensive_validation"
  /\ history' = Append(history, "comprehensive_validation")
  /\ status' = "done"
  /\ existed' = exists
  /\ UNCHANGED <<env, unreadable, sys, autofix>>
  /\ UNCHANGED <<tree, analyzer, printed, report, adminVars>>
  /\ UNCHANGED <<base, urls, backups, clock, pc, target, before, pending, out, backedup,
                 initial, crashed>>

\* project_structure_analyzer.py:21-31 and 177-242: analyze() on the object a,
\* generate_report included: it builds the report dict, prints the score and
\* its status and writes the snapshot structure_analysis_<now>.json
AnalyzeWith(a) ==
  /\ pc = "idle"
  /\ LET b == Analysis(a)
         r == ReportOf(b, Len(history) + 1)
     IN  /\ analyzer' = b
         /\ report' = r
         /\ printed' = [score |-> _calculate_score(b), status |-> StatusOf(_calculate_score(b))]
         /\ reports' = [reports EXCEPT ![ReportFile("structure_analysis")] = r]
         /\ snapshots' = Append(snapshots, ReportFile("structure_analysis"))
  /\ history' = Append(history, "project_structure_analyzer")
  /\ UNCHANGED <<base, urls, backups, clock, pc, target, before, pending, out, status,
                 backedup, initial, crashed, toolVars, tree, adminVars>>

\* analyze() called on the analyzer object that exists
Analyze == AnalyzeWith(analyzer)

\* project_structure_analyzer.py:316-318: the script constructs an analyzer and
\* calls analyze()
RunStructureAnalysis == AnalyzeWith(NewAnalyzer)

\* migrate sites 0003: RunPython(update_site_forward)
MigrateForward ==
  /\ ~applied
  /\ site0' = site
  /\ site' = update_site_forward(site)
  /\ applied' = TRUE
  /\ history' = Append(history, "update_site_forward")
  /\ UNCHANGED <<users, users0, environ, called, admin_runs>>
  /\ UNCHANGED <<base, urls, backups, clock, pc, target, before, pending, out, status,
                 backedup, initial, crashed, toolVars, analyzerVars>>

\* migrate sites 0002: RunPython(update_site_backward); an exception leaves the
\* migration applied and the table as it was
MigrateBackward ==
  /\ applied
  /\ IF backward_raises(site)
     THEN UNCHANGED <<site, applied>>
     ELSE /\ site' = update_site_backward(site)
          /\ applied' = FALSE
  /\ history' = Append(history, "update_site_backward")
  /\ UNCHANGED <<site0, users, users0, environ, called, admin_runs>>
  /\ UNCHANGED <<base, urls, backups, clock, pc, target, before, pending, out, status,
                 backedup, initial, crashed, toolVars, analyzerVars>>

\* manage_safe.py:6-20 in a new process; without Django the import raises and
\* execute_from_command_line is not called
RunManageSafe ==
  /\ called' = IF "django" \in sys.missing THEN called
               ELSE Append(called, SafeEnviron(environ))
  /\ history' = Append(history, "manage_safe")
  /\ UNCHANGED <<site, site0, applied, users, users0, environ, admin_runs>>
  /\ UNCHANGED <<base, urls, backups, clock, pc, target, before, pending, out, status,
                 backedup, initial, crashed, toolVars, analyzerVars>>

\* create_admin_direct.py:1-28 in a new process; without Django the import
\* raises before the table is touched
RunCreateAdmin ==
  /\ IF "django" \in sys.missing
     THEN UNCHANGED <<users, admin_runs>>
     ELSE /\ users' = create_superuser(delete_admin(users), users)
          /\ admin_runs' = admin_runs + 1
  /\ history' = Append(history, "create_admin_direct")
  /\ UNCHANGED <<site, site0, applied, users0, environ, called>>
  /\ UNCHANGED <<base, urls, backups, clock, pc, target, before, pending, out, status,
                 backedup, initial, crashed, toolVars, analyzerVars>>

\* what a script prints after its write
FinalOut(name) ==
  CASE name = "fix_middleware_order" -> <<MsgMiddlewareFixed>>
    [] name = "fix_flatpages" -> <<MsgFlatpagesComplete>>
    [] name = "fix_allauth_settings" -> <<MsgAllauthUpdated>>
    [] name = "fix_local_apps" -> <<MsgLocalAppsUpdated>>
    [] name = "fix_oscar_settings" -> <<MsgConfigUpdated>>
    [] name = "fix_oscar_v4" -> <<MsgOscar4Complete>>
    [] name = "fix_django_tables2" -> <<MsgTables2Fixed>>
    [] name = "fix_duplicate_tables2" -> <<MsgRemoved>>
    [] name = "update_urls" -> <<MsgUrlsUpdated>>
    [] name = "auto_fix" -> <<MsgAllFixesApplied>>

\* f.write(...) and the end of the with block: the content reaches the file,
\* then the script prints its last message
FinishWrite ==
  /\ pc = "writing"
  /\ IF target = "base"
     THEN base' = pending /\ UNCHANGED urls
     ELSE urls' = pending /\ UNCHANGED base
  /\ out' = out \o FinalOut(Script)
  /\ pc' = "idle"
  /\ status' = "done"
  /\ UNCHANGED <<backups, clock, target, before, pending, backedup, history, initial, crashed,
                 toolVars, analyzerVars, adminVars>>

\* the process is stopped between open(..., 'w') and the write reaching the file
Interrupt ==
  /\ pc = "writing"
  /\ pc' = "idle"
  /\ status' = "interrupted"
  /\ crashed' = TRUE
  /\ UNCHANGED <<base, urls, backups, clock, target, before, pending, out, backedup,
                 history, initial, toolVars, analyzerVars, adminVars>>

\* a second passes
Tick ==
  /\ clock < MaxClock
  /\ clock' = clock + 1
  /\ UNCHANGED <<base, urls, backups, pc, target, before, pending, out, status,
                 backedup, history, initial, crashed, toolVars, analyzerVars, adminVars>>

Init == InitWith(PatchFiles)

Next ==
  \/ Len(history) < MaxRuns /\ RunFixMiddlewareOrder
  \/ Len(history) < MaxRuns /\ RunFixFlatpages
  \/ Len(history) < MaxRuns /\ RunFixAllauthSettings
  \/ Len(history) < MaxRuns /\ RunFixLocalApps
  \/ Len(history) < MaxRuns /\ RunUpdateUrls
  \/ FinishWrite
  \/ Interrupt

Spec == Init /\ [][Next]_vars

InitOscar == InitWith(OscarFiles)

NextOscar ==
  \/ Len(history) < MaxOscarRuns /\ RunFixOscarSettings
  \/ Len(history) < MaxOscarRuns /\ RunFixOscarV4
  \/ Len(history) < MaxOscarRuns /\ RunFixLocalApps
  \/ FinishWrite
  \/ Interrupt
  \/ Tick

SpecOscar == InitOscar /\ [][NextOscar]_vars

InitTables == InitWith(TablesFiles)

NextTables ==
  \/ Len(history) < MaxTablesRuns /\ RunFixOscarV4
  \/ Len(history) < MaxTablesRuns /\ RunFixDjangoTables2
  \/ Len(history) < MaxTablesRuns /\ RunFixDuplicateTables2
  \/ FinishWrite
  \/ Interrupt

SpecTables == InitTables /\ [][NextTables]_vars

\* what can deviate where full_diagnostic.py looks
DiagFaults ==
  {<<"gone", p>> : p \in {EnvPath, BasePath, UrlsPath, UserModelPath, TemplatesPath, StaticPath}}
  \cup {<<"unreadable", p>> : p \in {EnvPath, BasePath, UrlsPath}}
  \cup {<<"env", c>> : c \in EnvFiles}
  \cup {<<"urls", c>> : c \in UrlsFiles}
  \cup {<<"base", c>> : c \in BaseFiles}
  \cup {<<"missing", p>> : p \in Packages}
  \cup {<<"failing", c>> : c \in {"check_settings", "check_migrations"}}
  \cup {<<"duplicates", "">>, <<"unapplied", "">>}

InitDiag == \E F \in SetsUpTo(DiagFaults, MaxFaults) : OneContent(F) /\ InitFrom(F)

NextDiag ==
  \/ Len(history) < MaxDiagRuns /\ RunAllChecks
  \/ Len(history) < MaxDiagRuns /\ RunAutoFix
  \/ Len(history) < MaxDiagRuns /\ RunUpdateUrls
  \/ FinishWrite
  \/ Interrupt

SpecDiag == InitDiag /\ [][NextDiag]_vars

\* what can deviate where comprehensive_validation.py looks
ValidFaults ==
  {<<"gone", p>> : p \in AllPaths}
  \cup {<<"unreadable", p>> : p \in {settings_files[i] : i \in 1..Len(settings_files)}}
  \cup {<<"base", c>> : c \in BaseFiles}
  \cup {<<"failing", c>> : c \in {"check_django_setup", "check_wagtail_setup",
                                   "check_oscar_setup", "check_app_structure",
                                   "check_authentication", "check_api_setup",
                                   "check_static_media", "check_database"}}
  \cup {<<"unregistered", a>> : a \in {required_apps[i] : i \in 1..Len(required_apps)}}
  \cup {<<"noroot", s>> : s \in {"STATIC_ROOT", "MEDIA_ROOT"}}
  \cup {<<"duplicates", "">>}

\* every directory of cookiecutter_dirs is missing
NoDirectories == {<<"gone", cookiecutter_dirs[i]>> : i \in 1..Len(cookiecutter_dirs)}

\* a sound project, or one without the directories of cookiecutter_dirs, with
\* at most MaxFaults further deviations
InitValid ==
  \E F \in SetsUpTo(ValidFaults, MaxFaults), D \in {{}, NoDirectories} :
    OneContent(F) /\ InitFrom(F \cup D)

NextValid == Len(history) < MaxValidRuns /\ RunValidation

SpecValid == InitValid /\ [][NextValid]_vars

\* .env files in which a variable's name or a placeholder stands outside an
\* assignment to that variable, next to those of EnvFiles
EnvCases ==
  EnvFiles \cup {<<SecretComment, SecretReal, DbReal>>, <<SecretDouble, DbReal>>,
                 <<SecretReal, DbTest>>, <<SecretComment, DbTest>>}

\* what else can deviate when check_environment reads .env
EnvFaults ==
  {<<"gone", p>> : p \in {EnvPath, BasePath, UrlsPath, UserModelPath, TemplatesPath, StaticPath}}
  \cup {<<"unreadable", p>> : p \in {EnvPath, BasePath, UrlsPath}}
  \cup {<<"urls", c>> : c \in UrlsFiles}
  \cup {<<"missing", p>> : p \in {"django", "oscar", "wagtail"}}

InitEnv ==
  \E c \in EnvCases, F \in SetsUpTo(EnvFaults, MaxFaults) :
    OneContent(F) /\ InitFrom(F \cup {<<"env", c>>})

NextEnv == Len(history) < MaxDiagRuns /\ RunAllChecks

SpecEnv == InitEnv /\ [][NextEnv]_vars

\* the deviations the report writers start from
ReportFaults ==
  {<<"gone", p>> : p \in {cookiecutter_dirs[i] : i \in 1..Len(cookiecutter_dirs)}}
  \cup {<<"gone", p>> : p \in {cookiecutter_files[i] : i \in 1..Len(cookiecutter_files)}}
  \cup {<<"failing", c>> : c \in {"check_django_setup", "check_database"}}

InitReports == \E F \in SetsUpTo(ReportFaults, 1) : InitFrom(F)

NextReports ==
  \/ Len(history) < MaxReportRuns /\ RunValidation
  \/ Len(history) < MaxReportRuns /\ RunStructureAnalysis
  \/ Tick

SpecReports == InitReports /\ [][NextReports]_vars

\* the tree project_structure_analyzer.py looks at: each path with its directory
TreeEdges ==
  {<<"config/settings", "config">>, <<".github/workflows", ".github">>,
   <<"maida_vale/api", "maida_vale">>, <<"maida_vale/api/v1", "maida_vale/api">>}
  \cup {<<m, "config/settings">> : m \in SettingsModules}
  \cup {<<AppDir(a), "maida_vale">> : a \in AppNames}
  \cup {<<Join(AppDir(a), f), AppDir(a)>> :
          a \in AppNames, f \in {"models.py", "views.py", "admin.py", "apps.py", "models", "views"}}

AnalyzerPaths ==
  {standard_dirs[i] : i \in 1..Len(standard_dirs)}
  \cup {"pyproject.toml", "uv.lock", "README.md", ".github"}
  \cup {e[1] : e \in TreeEdges}

\* P with the directories its paths lie in
RECURSIVE Above(_)
Above(P) ==
  LET Q == P \cup {e[2] : e \in {d \in TreeEdges : d[1] \in P}}
  IN  IF Q = P THEN P ELSE Above(Q)

\* P with all that lies inside its paths
RECURSIVE Below(_)
Below(P) ==
  LET Q == P \cup {e[1] : e \in {d \in TreeEdges : d[2] \in P}}
  IN  IF Q = P THEN P ELSE Below(Q)

\* the paths whose presence varies between the initial trees
VariedPaths ==
  (AnalyzerPaths \ UNION {{Join(AppDir(a), f) :
                             f \in {"models.py", "views.py", "admin.py", "apps.py", "views"}} :
                          a \in AppNames \ {"nesosa"}})

\* what can differ from the bare tree and from the complete tree
AnalyzerFaults ==
  {<<"path", p>> : p \in VariedPaths}
  \cup {<<"cleanup", n>> : n \in (MaxCleanup - 2)..MaxCleanup}
  \cup {<<"pycache", n>> : n \in (MaxPycache - 2)..MaxPycache}
  \cup {<<"docker", 1>>}

\* the count the deviations F give for kind, or none
Counted(F, kind) == IF Of(F, kind) = {} THEN 0 ELSE CHOOSE n \in Of(F, kind) : TRUE

\* a bare project root to which F adds, or a complete tree from which F takes
\* away; the files the globs count are those F names
InitAnalyzer ==
  \E F \in SetsUpTo(AnalyzerFaults, MaxFaults), complete \in BOOLEAN :
    /\ \A kind \in {"cleanup", "pycache"} : Cardinality(Of(F, kind)) <= 1
    /\ exists = IF complete THEN AnalyzerPaths \ Below(Of(F, "path"))
                ELSE Above(Of(F, "path"))
    /\ tree = [cleanup |-> Counted(F, "cleanup"), pycache |-> Counted(F, "pycache"),
               docker |-> IF complete THEN 1 - Counted(F, "docker")
                          ELSE Counted(F, "docker")]
    /\ existed = exists
    /\ unreadable = {}
    /\ env = HealthyEnv
    /\ urls = RepoUrls
    /\ base = HealthyBase
    /\ initial = base
    /\ sys = HealthySys
    /\ ToolsIdle
    /\ ScriptsIdle
    /\ ReportsIdle
    /\ AdminIdle

NextAnalyzer == Len(history) < MaxAnalyzeCalls /\ Analyze

SpecAnalyzer == InitAnalyzer /\ [][NextAnalyzer]_vars

\* the rows a Site table and a user table can hold when the scripts start
SiteTables ==
  {{}} \cup {{r} : r \in [id : {1}, domain : {"example.com", "localhost:8000", "salbion.test"},
                          name : {"example.com", "Salbion"}]}

UserRows ==
  [id : 1..2, username : {"admin", "alice"}, email : {"admin@localhost", "root@example.com"},
   is_superuser : BOOLEAN]

\* the primary key is unique
UserTables ==
  {T \in SUBSET UserRows : \A u, v \in T : u.id = v.id => u = v}

Environs ==
  [DJANGO_SETTINGS_MODULE : {Unset, "config.settings.local", "config.settings.production"},
   DATABASE_URL : {Unset, "sqlite:///db.sqlite3", "postgres://localhost/maida_vale"}]

InitAdmin ==
  /\ site \in SiteTables
  /\ site0 = site
  /\ applied = FALSE
  /\ users \in UserTables
  /\ users0 = users
  /\ environ \in Environs
  /\ called = <<>>
  /\ admin_runs = 0
  /\ sys \in {HealthySys, [HealthySys EXCEPT !.missing = {"django"}]}
  /\ exists = AllPaths
  /\ existed = exists
  /\ unreadable = {}
  /\ env = HealthyEnv
  /\ urls = RepoUrls
  /\ base = HealthyBase
  /\ initial = base
  /\ ToolsIdle
  /\ ScriptsIdle
  /\ AnalyzerIdle

NextAdmin ==
  \/ Len(history) < MaxAdminRuns /\ MigrateForward
  \/ Len(history) < MaxAdminRuns /\ MigrateBackward
  \/ Len(history) < MaxAdminRuns /\ RunManageSafe
  \/ Len(history) < MaxAdminRuns /\ RunCreateAdmin

SpecAdmin == InitAdmin /\ [][NextAdmin]_vars

----------------------------------------------------------------------------
(* Notions the claims use *)

Range(s) == {s[i] : i \in 1..Len(s)}

\* the file the last script writes
TargetFile == IF target = "base" THEN base ELSE urls

\* the last script ran to its end
Finished(name) == pc = "idle" /\ status = "done" /\ Script = name

\* the line is the "django_tables2" entry of an app list
IsTables2Entry(line) == line \in {Tables2Line, Tables2NoComma}

\* the index of the k-th line of s that satisfies Test (0 when there is none)
Nth(s, k, Test(_)) ==
  LET pos == {i \in 1..Len(s) : Test(s[i])}
      kth == {i \in pos : Cardinality({j \in pos : j <= i}) = k}
  IN  IF kth = {} THEN 0 ELSE CHOOSE i \in kth : TRUE

RemoveAt(s, i) == SubSeq(s, 1, i - 1) \o SubSeq(s, i + 1, Len(s))

\* the four lines of old_settings stand in the content, one after the other
HasOldSettings(content) ==
  \E i \in 1..Len(content) : i + 3 <= Len(content) /\ SubSeq(content, i, i + 3) = old_settings

----------------------------------------------------------------------------
(* Claims *)

\* C1: fix_middleware_order is idempotent: when base.py held the
\* BasketMiddleware line and the AuthenticationMiddleware line once each, a
\* second run leaves the result of the first run as it is, and a run on a
\* file where BasketMiddleware already followed AuthenticationMiddleware
\* changed nothing.
C1_MiddlewareOrderIdempotent ==
  ( /\ Finished("fix_middleware_order")
    /\ Count(before, HasBasketMiddleware) = 1
    /\ Count(before, HasAuthMiddleware) = 1 )
  => /\ FixMiddlewareOrder(base) = base
     /\ ( Nth(before, 1, HasAuthMiddleware) < Nth(before, 1, HasBasketMiddleware)
          => base = before )

\* C2: from a base.py whose THIRD_PARTY_APPS list holds the "django_tables2"
\* entry at most once, any sequence of complete runs of fix_oscar_v4,
\* fix_django_tables2 and fix_duplicate_tables2 that has a fix_oscar_v4 run in
\* it and ends with a deduplication run leaves the entry in the file exactly
\* once.
C2_Tables2ExactlyOnce ==
  ( /\ ~crashed
    /\ Count(initial, IsTables2Entry) <= 1
    /\ "fix_oscar_v4" \in Range(history)
    /\ \/ Finished("fix_django_tables2")
       \/ Finished("fix_duplicate_tables2") )
  => Count(base, IsTables2Entry) = 1

\* C3: on a base.py with exactly two "django_tables2" entry lines,
\* fix_duplicate_tables2 removes the second of them and nothing else, logs
\* one removal, and the entry is left exactly once.
C3_DuplicateRemovesSecond ==
  ( /\ Finished("fix_duplicate_tables2")
    /\ Count(before, IsTables2Entry) = 2 )
  => /\ base = RemoveAt(before, Nth(before, 2, IsTables2Entry))
     /\ Cardinality({i \in 1..Len(out) : out[i] = MsgRemoving}) = 1
     /\ Count(base, IsTables2Entry) = 1

\* C4: for fix_oscar_settings, fix_oscar_v4 and fix_local_apps, on every
\* content, a second run leaves the result of the first run as it is.
C4_OscarScriptsIdempotent ==
  /\ Finished("fix_oscar_settings") => FixOscarSettings(base) = base
  /\ Finished("fix_oscar_v4") => FixOscarV4(base) = base
  /\ Finished("fix_local_apps") => FixLocalApps(base) = base

\* C5: fix_middleware_order, fix_flatpages and fix_allauth_settings leave
\* base.py as it was when their anchor is absent (no AuthenticationMiddleware
\* line; neither the admin entry nor the RedirectMiddleware entry; no block
\* of the four deprecated ACCOUNT_* settings).
C5_AnchorAbsentUntouched ==
  /\ ( Finished("fix_middleware_order") /\ ~AnyLine(before, HasAuthMiddleware) )
     => base = before
  /\ ( Finished("fix_flatpages") /\ AdminLine \notin Range(before)
                                 /\ RedirectLine \notin Range(before) )
     => base = before
  /\ ( Finished("fix_allauth_settings") /\ ~HasOldSettings(before) )
     => base = before

\* C6: after fix_oscar_settings the file has the get_core_apps() call on
\* THIRD_PARTY_APPS only if it has the line 'from oscar import
\* get_core_apps', and when no line started with 'import environ' the call
\* was not added.
C6_NoPartialOscarEdit ==
  Finished("fix_oscar_settings")
  => /\ GetCoreClose \in Range(base) => OscarImport \in Range(base)
     /\ ~AnyLine(before, StartsWithImportEnviron)
        => Count(base, HasBracketGetCore) <= Count(before, HasBracketGetCore)

\* C7: when a script is stopped between opening its target for writing and
\* the end of the write, the target holds the whole content from before the
\* patch or the whole patched content.
C7_WriteIsAtomic ==
  status = "interrupted" => TargetFile \in {before, pending}

\* C8: whenever a script holds base.py or urls.py open for writing, it has
\* completed a backup copy that holds the content from before the patch.
C8_BackupBeforeWrite ==
  pc = "writing"
  => /\ backedup
     /\ \E t \in DOMAIN backups : backups[t] = before

\* C9: after any sequence of complete runs of fix_oscar_settings and
\* fix_oscar_v4, some backup file holds the content base.py had before the
\* first run.
C9_FirstBackupKept ==
  ( /\ history # <<>>
    /\ Range(history) \subseteq {"fix_oscar_settings", "fix_oscar_v4"}
    /\ pc = "idle"
    /\ ~crashed )
  => \E t \in DOMAIN backups : backups[t] = initial

\* C10: fix_flatpages prints 'Added django.contrib.flatpages to
\* DJANGO_APPS', fix_local_apps prints 'Updated LOCAL_APPS' and
\* fix_allauth_settings prints 'Updated allauth settings' only when the run
\* changed the file content.
C10_AppliedOnlyIfChanged ==
  /\ ( Finished("fix_flatpages") /\ MsgFlatpagesAdded \in Range(out) ) => base # before
  /\ ( Finished("fix_local_apps") /\ MsgLocalAppsUpdated \in Range(out) ) => base # before
  /\ ( Finished("fix_allauth_settings") /\ MsgAllauthUpdated \in Range(out) ) => base # before

\* C11: after fix_flatpages ran on a base.py that held the admin anchor and
\* the RedirectMiddleware anchor once each, and each of the two flatpages
\* entries at most once, the file holds the "django.contrib.flatpages" app
\* entry exactly once and the FlatpageFallbackMiddleware entry exactly once.
C11_FlatpagesBothEntries ==
  ( /\ Finished("fix_flatpages")
    /\ Cardinality({i \in 1..Len(before) : before[i] = AdminLine}) = 1
    /\ Cardinality({i \in 1..Len(before) : before[i] = RedirectLine}) = 1
    /\ Cardinality({i \in 1..Len(before) : before[i] = FlatpagesAppLine}) <= 1
    /\ Cardinality({i \in 1..Len(before) : before[i] = FlatpageMwLine}) <= 1 )
  => /\ Cardinality({i \in 1..Len(base) : base[i] = FlatpagesAppLine}) = 1
     /\ Cardinality({i \in 1..Len(base) : base[i] = FlatpageMwLine}) = 1

\* the routes of urlpatterns in a urls.py, in order
Routes(content) == SelectSeq(content, IsRoute)

\* a URL fix ran to its end
UrlFixDone == pc = "idle" /\ status = "done" /\ Script \in {"auto_fix", "update_urls"}

\* C12: a URL fix (the generated fix script, or update_urls) applied to a
\* config/urls.py without the Oscar route puts the Oscar route immediately
\* before the catch-all route and keeps every route that was in urlpatterns,
\* in the same relative order.
C12_UrlFixKeepsRoutes ==
  (UrlFixDone /\ ~(\E i \in 1..Len(before) : IsOscarRoute(before[i])))
  => LET old == Routes(before)
         new == Routes(urls)
         Old(line) == line \in Range(old)
     IN  /\ \E i \in 1..(Len(new) - 1) : IsOscarRoute(new[i]) /\ IsCatchAll(new[i + 1])
         /\ SelectSeq(new, Old) = old

\* the generated fix script ran to its end on a urls.py for which check_urls
\* had recorded that the Oscar URLs are not included
GeneratedFixDone ==
  /\ Finished("auto_fix")
  /\ ~(\E i \in 1..Len(before) : HasOscarAppConfig(before[i]))

\* the issues check_urls can record
UrlIssues ==
  {OscarUrlsIssue, <<"Wagtail admin URLs not included">>, <<"Wagtail URLs not included">>,
   <<"Missing 'from django.apps import apps' import">>}

\* C13: after the generated URL fix script was applied, a fresh check_urls on
\* the resulting urls.py records none of its four issues and no fix, and so
\* does the next run of the diagnostic.
C13_FixedUrlsPassCheck ==
  /\ GeneratedFixDone => check_urls(NoFindings) = NoFindings
  /\ ( /\ Len(history) >= 2
       /\ history[Len(history)] = "full_diagnostic"
       /\ history[Len(history) - 1] = "auto_fix"
       /\ ~crashed
       /\ reported )
     => (Range(issues) \cap UrlIssues = {} /\ fixes = <<>>)

C13_Witness ==
  /\ GeneratedFixDone
  /\ urls = fixed_urls
  /\ \E i \in 1..Len(before) : IsRoute(before[i])

\* C14: a run of run_all_checks leaves .env, base.py and urls.py as they
\* were; the only file it writes is auto_fix.py, and it writes it if and
\* only if the run recorded at least one fix.
C14_DiagnosticOnlyWritesFixScript ==
  [][ (history' = Append(history, "full_diagnostic"))
      => /\ env' = env /\ base' = base /\ urls' = urls
         /\ exists' = exists /\ unreadable' = unreadable
         /\ wrote' \subseteq {"auto_fix.py"}
         /\ (wrote' = {"auto_fix.py"}) <=> (fixes' # <<>>)
         /\ (wrote' = {}) => (autofix' = autofix) ]_vars

C14_Witness ==
  /\ Script = "full_diagnostic"
  /\ fixes # <<>>
  /\ wrote = {"auto_fix.py"}
  /\ autofix = <<fixed_urls>>

\* the diagnostic ran last
DiagnosticRan == pc = "idle" /\ Script = "full_diagnostic"

\* the issues the run recorded about a file: all that check_urls records for
\* urls.py; for base.py what check_settings records other than a failure to
\* load the settings module or duplicates in INSTALLED_APPS
FileIssues(path) ==
  IF path = UrlsPath
  THEN Range(check_urls(NoFindings).issues)
  ELSE {x \in Range(check_settings(NoFindings).issues) :
          x[1] \notin {"Cannot load settings: ", "Duplicate apps in INSTALLED_APPS: "}}

\* C15: when config/urls.py or config/settings/base.py is absent, the run of
\* the diagnostic records an issue for the missing file.
C15_MissingFileRecorded ==
  \A path \in {UrlsPath, BasePath} :
    (DiagnosticRan /\ reported /\ path \notin exists)
    => (FileIssues(path) # {} /\ FileIssues(path) \subseteq Range(issues))

\* C16: no failure of a single check ends a run early: a run of either
\* inspector enters every check and reaches its report, whatever the checks
\* find, also when a configuration file exists but cannot be read.
C16_RunReachesReport ==
  (pc = "idle" /\ Script \in {"full_diagnostic", "comprehensive_validation"})
  => /\ reported
     /\ Script = "full_diagnostic" => ran = DiagnosticChecks

\* C17: a run of comprehensive_validation or full_diagnostic ends with a
\* non-zero exit status whenever its issues list is not empty at the end.
C17_IssuesFailTheRun ==
  (pc = "idle" /\ Script \in {"full_diagnostic", "comprehensive_validation"} /\ issues # <<>>)
  => exitcode # 0

\* the validator ran last
ValidationRan == pc = "idle" /\ Script = "comprehensive_validation"

\* how often x stands in the list s
Occurrences(s, x) == Cardinality({i \in 1..Len(s) : s[i] = x})

\* C18: check_cookiecutter_structure adds exactly one warning and no issue
\* for each directory of its list that is missing, exactly one issue and no
\* warning for each file of its list that is missing, and stores
\* structure_valid as true exactly when nothing of either list is missing.
C18_StructureFindings ==
  ValidationRan =>
    /\ \A d \in Range(cookiecutter_dirs) :
         /\ Occurrences(warnings, <<"Missing directory: ", d>>) = (IF d \in existed THEN 0 ELSE 1)
         /\ Occurrences(issues, <<"Missing directory: ", d>>) = 0
         /\ Occurrences(issues, <<"Missing file: ", d>>) = 0
    /\ \A file \in Range(cookiecutter_files) :
         /\ Occurrences(issues, <<"Missing file: ", file>>) = (IF file \in existed THEN 0 ELSE 1)
         /\ Occurrences(warnings, <<"Missing file: ", file>>) = 0
         /\ Occurrences(warnings, <<"Missing directory: ", file>>) = 0
    /\ structure_valid <=>
         (Range(cookiecutter_dirs) \cup Range(cookiecutter_files)) \subseteq existed

C18_Witness ==
  /\ ValidationRan
  /\ \E d \in Range(cookiecutter_dirs) : d \notin existed
  /\ \E file \in Range(cookiecutter_files) : file \notin existed
  /\ ~structure_valid
  /\ Len(warnings) >= 1 /\ Len(issues) >= 1

\* C19: when every directory of cookiecutter_dirs is missing and nothing else
\* is deficient, the run ends with warnings and no issue, and afterwards
\* every one of these directories exists.
C19_MissingDirectoriesRepaired ==
  ( /\ ValidationRan
    /\ existed = AllPaths \ Under(Range(cookiecutter_dirs))
    /\ unreadable = {}
    /\ sys = HealthySys
    /\ base = HealthyBase )
  => /\ issues = <<>>
     /\ warnings # <<>>
     /\ Range(cookiecutter_dirs) \subseteq exists

\* C20: apply_automatic_fixes creates a directory and records
\* 'Created directory: X' only for an X that did not exist and for which
\* check_cookiecutter_structure recorded 'Missing directory: X' in the same
\* run; a run of the validator right after another records no fix.
C20_FixesOnlyForMissing ==
  ValidationRan =>
    /\ \A i \in 1..Len(fixes) :
         /\ fixes[i][1] = "Created directory: "
         /\ fixes[i][2] \notin existed
         /\ fixes[i][2] \in exists
         /\ Occurrences(warnings, <<"Missing directory: ", fixes[i][2]>>) = 1
    /\ \A x \in exists \ existed : Occurrences(fixes, <<"Created directory: ", x>>) = 1
    /\ (Len(history) >= 2 /\ history[Len(history) - 1] = "comprehensive_validation")
       => (fixes = <<>> /\ exists = existed)

C20_Witness ==
  /\ ValidationRan
  /\ fixes # <<>>
  /\ exists # existed
  /\ \E d \in Range(required_dirs) : d \in existed

\* C21: every invocation of generate_report, the validator's and the
\* analyzer's, writes its snapshot to a path no earlier invocation wrote, so
\* the snapshot of every invocation is still in its file.
C21_SnapshotsNeverOverwritten ==
  /\ \A i, j \in 1..Len(snapshots) : i # j => snapshots[i] # snapshots[j]
  /\ Cardinality({reports[p] : p \in {q \in ReportPaths : reports[q] # NoFile}})
       = Len(snapshots)

\* the line assigns var a value that begins with your-, bare or after a
\* single quote
AssignsPlaceholder(var, line) ==
  CASE var = "DJANGO_SECRET_KEY" -> line \in {SecretPlaceholder, SecretQuoted}
    [] var = "DATABASE_URL" -> line \in {DbPlaceholder}

\* C22: for each of DJANGO_SECRET_KEY and DATABASE_URL, check_environment on
\* a readable .env records exactly one placeholder issue naming the variable
\* when the file assigns it a value beginning with your-, exactly one
\* 'Missing' issue when the name does not occur in the file, and nothing
\* otherwise; it adds nothing to the fixes list.
C22_EnvironmentIssues ==
  (DiagnosticRan /\ EnvPath \in exists \ unreadable) =>
    /\ check_environment(NoFindings).fixes = <<>>
    /\ \A var \in {"DJANGO_SECRET_KEY", "DATABASE_URL"} :
         LET placeholder == Occurrences(issues, <<var, " has placeholder value in .env">>)
             missing == Occurrences(issues, <<"Missing ", var, " in .env">>)
         IN  IF \E i \in 1..Len(env) : AssignsPlaceholder(var, env[i])
             THEN placeholder = 1 /\ missing = 0
             ELSE IF ~(\E i \in 1..Len(env) : HasVar(var, env[i]))
                  THEN placeholder = 0 /\ missing = 1
                  ELSE placeholder = 0 /\ missing = 0

\* what the file-based checks of the diagnostic can record in issues and in
\* warnings: check_environment, check_urls, check_models, check_templates
\* and check_static_files
FileFindings ==
  {<<".env file missing">>, <<"Custom user model file missing">>,
   <<"Templates directory missing">>, <<"Static directory missing">>}
  \cup {<<"Missing ", var, " in .env">> : var \in {"DJANGO_SECRET_KEY", "DATABASE_URL"}}
  \cup {<<var, " has placeholder value in .env">> : var \in {"DJANGO_SECRET_KEY", "DATABASE_URL"}}
  \cup UrlIssues

\* the entries of a findings list that the file-based checks recorded
FileBased(list) == SelectSeq(list, LAMBDA x : x \in FileFindings)

C24_SiteRoundTrip ==
  (Script = "update_site_backward" /\ ~applied) => site = site0

\* the lines of s other than the BasketMiddleware line, in order
WithoutBasket(s) == SelectSeq(s, LAMBDA line : ~HasBasketMiddleware(line))

\* C25: when base.py held one BasketMiddleware line and one
\* AuthenticationMiddleware line, in either order, a finished run of
\* fix_middleware_order leaves the BasketMiddleware line exactly once,
\* directly after the AuthenticationMiddleware line, and every other line
\* where it was.
C25_BasketFollowsAuth ==
  ( /\ Finished("fix_middleware_order")
    /\ Count(before, HasBasketMiddleware) = 1
    /\ Count(before, HasAuthMiddleware) = 1 )
  => /\ Count(base, HasBasketMiddleware) = 1
     /\ Nth(base, 1, HasBasketMiddleware) = Nth(base, 1, HasAuthMiddleware) + 1
     /\ WithoutBasket(base) = WithoutBasket(before)

\* the lines of s that are not a "django_tables2" app entry, in order
OtherLines(s) == SelectSeq(s, LAMBDA line : ~IsTables2Entry(line))

\* C26: fix_duplicate_tables2 removes only "django_tables2" app-entry lines
\* and keeps one of them: every line that is not such an entry stays where
\* it was, also one that mentions django_tables2, and when the run removed
\* something an app-entry line is left.
C26_OnlyEntriesRemoved ==
  Finished("fix_duplicate_tables2")
  => /\ OtherLines(base) = OtherLines(before)
     /\ base # before => Count(base, IsTables2Entry) >= 1

\* C27: whatever the environment manage_safe starts in, at every call of
\* execute_from_command_line DJANGO_SETTINGS_MODULE is config.settings.local
\* and DATABASE_URL is sqlite:///db.sqlite3.
C27_SafeSettingsForced ==
  \A i \in 1..Len(called) :
    /\ called[i].DJANGO_SETTINGS_MODULE = "config.settings.local"
    /\ called[i].DATABASE_URL = "sqlite:///db.sqlite3"

\* analyze() ran last
AnalyzerRan == Script = "project_structure_analyzer"

\* what the lists of the analyzer give before the score is capped
RawScore == 50 + 3 * Len(analyzer.strengths) - 5 * Len(analyzer.issues)

\* C28: the structure score is max(0, min(100, 50 + 3*|strengths| -
\* 5*|issues|)) and so lies within 0..100; the score in the written report is
\* the score printed, and the printed status is the band of that score
\* (>= 80 Excellent, 60..79 Good, 40..59 Fair, below 40 Needs work).
C28_ScoreAndStatus ==
  AnalyzerRan =>
    /\ printed.score = (IF RawScore < 0 THEN 0 ELSE IF RawScore > 100 THEN 100 ELSE RawScore)
    /\ printed.score \in 0..100
    /\ structure_score(report) = printed.score
    /\ structure_score(reports[snapshots[Len(snapshots)]]) = printed.score
    /\ printed.status =
         CASE printed.score >= 80 -> "Excellent - Production ready"
           [] printed.score \in 60..79 -> "Good - Minor improvements needed"
           [] printed.score \in 40..59 -> "Fair - Significant improvements recommended"
           [] printed.score < 40 -> "Needs work - Major restructuring recommended"

C28_Witness ==
  /\ AnalyzerRan
  /\ RawScore < 0
  /\ printed.score = 0
  /\ printed.status = "Needs work - Major restructuring recommended"

\* C29: one analyze() call on a fresh analyzer records at most two issues,
\* so the score it prints is at least 40 and its status is not 'Needs work -
\* Major restructuring recommended'.
C29_AtMostTwoIssues ==
  [][ (analyzer = NewAnalyzer /\ history' = Append(history, "project_structure_analyzer"))
      => /\ Len(analyzer'.issues) <= 2
         /\ printed'.score >= 40
         /\ printed'.status # "Needs work - Major restructuring recommended" ]_vars

C29_Witness ==
  /\ history = <<"project_structure_analyzer">>
  /\ Len(analyzer.issues) = 2
  /\ printed.score \in 40..59

\* the rows of a user table with the username admin
Admins(table) == {u \in table : u.username = "admin"}

\* C30: after one or more completed runs of create_admin_direct, from any
\* initial user table, exactly one user has the username admin, that user is
\* a superuser with the email admin@localhost, and every user with another
\* username is as it was.
C30_OneAdmin ==
  admin_runs >= 1 =>
    /\ Cardinality(Admins(users)) = 1
    /\ \A u \in Admins(users) : u.is_superuser /\ u.email = "admin@localhost"
    /\ users \ Admins(users) = users0 \ Admins(users0)

C30_Witness ==
  /\ admin_runs >= 2
  /\ \E u \in Admins(users0) : ~u.is_superuser /\ u.email # "admin@localhost"
  /\ users0 \ Admins(users0) # {}

====
